---- MODULE Spec2Model ----
(***************************************************************************)
(* The falling-sand Universe: cell store, chunk index with dirty           *)
(* rectangles, scheduler (tick), element rules, ghost group table and the  *)
(* two-byte render view.  The Rust core is not part of the source tree;    *)
(* it is modelled from the design documents (ARCH.md for the tick loop)    *)
(* and from the specification of the core.                                 *)
(***************************************************************************)
EXTENDS Integers, Sequences, FiniteSets, TLC

\* ---- bounds of the model ------------------------------------------------
GridW == 3
GridH == 3
CHUNK_SIZE == 2
MaxPaint == 2
MaxTicks == 3
MaxGroups == 1
MaxSeed == 2

\* ---- species codes (protocol between core and renderer) -----------------
EMPTY == 0
SAND == 1
WATER == 2
WALL == 3
FIRE == 4
GHOST == 5
SMOKE == 6

U8 == 256
U16 == 65536

FIRE_LIFE_MIN == 40
FIRE_LIFE_MAX == 80
SMOKE_LIFE_MIN == 60
SMOKE_LIFE_MAX == 120
\* thresholds out of 256 for "about 5%" and "about 30%"
WATER_RERANDOM == 13
SMOKE_DRIFT == 77

\* side of a chunk tile in the core
CHUNK == 32

VARIABLES width, height, chunk_size, cells, render, chunks, generation, rng,
          ghosts, next_group, paints, tickLog

\* the host page: the refs of SimulationCanvas, the animation-frame callbacks
\* the browser holds, the position of init, the pending continuation of a
\* Reset, the InputHandler, and a history of what the host has done
VARIABLES refs, frames, initPc, resetThen, input, hist

\* the status shown by the page, the `cancelled` flag of the mount effect, the
\* Universe objects constructed so far (which one each reference holds, which
\* have been freed), and the module state of loadSimulation
VARIABLES status, errorMsg, cancelled, heap, loader

\* a call of one of the pure functions of input.ts: its name, its arguments
\* and what it returned
VARIABLES probe

pageVars == <<status, errorMsg, cancelled, heap, loader, probe>>

hostVars == <<refs, frames, initPc, resetThen, input, hist,
              status, errorMsg, cancelled, heap, loader, probe>>

vars == <<width, height, chunk_size, cells, render, chunks, generation, rng,
          ghosts, next_group, paints, tickLog,
          refs, frames, initPc, resetThen, input, hist,
          status, errorMsg, cancelled, heap, loader, probe>>

Min(a, b) == IF a < b THEN a ELSE b
Max(a, b) == IF a > b THEN a ELSE b
Clamp(v, lo, hi) == Max(lo, Min(v, hi))
Abs(n) == IF n < 0 THEN -n ELSE n

\* ---- cells ---------------------------------------------------------------
Cell(sp, a, b, c) == [species |-> sp, ra |-> a, rb |-> b, clock |-> c]
EMPTY_CELL == Cell(EMPTY, 0, 0, 0)
WALL_CELL == Cell(WALL, 0, 0, 0)

Idx(x, y) == y * width + x
InBounds(x, y) == x >= 0 /\ x < width /\ y >= 0 /\ y < height

\* ---- pseudo-random source (owned by the Universe) -----------------------
NextRng(r) == (r * 25173 + 13849) % U16
ByteOf(r) == r \div U8

\* ---- chunk index ---------------------------------------------------------
\* chunk_size is the tile side of this Universe: CHUNK in the core, a smaller
\* tile where a small grid has to span several chunks
chunks_w == (width + chunk_size - 1) \div chunk_size
chunks_h == (height + chunk_size - 1) \div chunk_size
ChunkOf(x, y) == (y \div chunk_size) * chunks_w + (x \div chunk_size)
CLEAN_CHUNK == [dirty |-> FALSE, minX |-> 0, minY |-> 0, maxX |-> 0, maxY |-> 0]

\* variant: only whole tiles are tracked, the cells of a partial tile at the
\* right or bottom edge belong to no chunk
mark_dirty_whole_tiles(ch, x, y) ==
  IF x \div chunk_size >= width \div chunk_size
     \/ y \div chunk_size >= height \div chunk_size
  THEN ch
  ELSE LET i == ChunkOf(x, y)
           c == ch[i]
       IN  [ch EXCEPT ![i] =
              IF c.dirty
              THEN [dirty |-> TRUE,
                    minX |-> Min(c.minX, x), minY |-> Min(c.minY, y),
                    maxX |-> Max(c.maxX, x), maxY |-> Max(c.maxY, y)]
              ELSE [dirty |-> TRUE, minX |-> x, minY |-> y, maxX |-> x, maxY |-> y]]

mark_dirty(ch, x, y) ==
  LET i == ChunkOf(x, y)
      c == ch[i]
  IN  [ch EXCEPT ![i] =
         IF c.dirty
         THEN [dirty |-> TRUE,
               minX |-> Min(c.minX, x), minY |-> Min(c.minY, y),
               maxX |-> Max(c.maxX, x), maxY |-> Max(c.maxY, y)]
         ELSE [dirty |-> TRUE, minX |-> x, minY |-> y, maxX |-> x, maxY |-> y]]

\* ---- the store: one write keeps cell store, render view and chunk index
\*      together.  u is the Universe being mutated.
write_cell(u, x, y, cell) ==
  LET i == Idx(x, y)
  IN  [u EXCEPT !.cells[i] = cell,
                !.render[2 * i] = cell.species,
                !.render[2 * i + 1] = cell.rb,
                !.chunks = mark_dirty(@, x, y)]

\* tickLog is a history of the events since the start of the last tick: what
\* the scheduler scanned, which rules ran, every write, and the paints since.
Universe == [cells |-> cells, render |-> render, chunks |-> chunks,
             rng |-> rng, ghosts |-> ghosts, log |-> tickLog]

\* ---- neighbourhood API ---------------------------------------------------
\* api = [x, y, g]: position of the cell whose rule runs, and the generation.
Api(x, y, g) == [x |-> x, y |-> y, g |-> g]

\* variant: a read outside the grid sees an Empty cell
api_get_open(u, api, dx, dy) ==
  IF InBounds(api.x + dx, api.y + dy)
  THEN u.cells[Idx(api.x + dx, api.y + dy)]
  ELSE EMPTY_CELL

api_get(u, api, dx, dy) ==
  IF InBounds(api.x + dx, api.y + dy)
  THEN u.cells[Idx(api.x + dx, api.y + dy)]
  ELSE WALL_CELL

\* events: "write" at (x,y) by the rule running at (fx,fy); "rule" invoked at
\* (x,y); "scan" of chunk x; "group" x translated by (fx,fy); "paint" of (x,y)
Event(kind, x, y, fx, fy) == [k |-> kind, x |-> x, y |-> y, fx |-> fx, fy |-> fy]
WriteEvent(api, x, y) == Event("write", x, y, api.x, api.y)
RuleEvent(x, y) == Event("rule", x, y, x, y)
Note(u, e) == [u EXCEPT !.log = Append(@, e)]

api_set(u, api, dx, dy, cell) ==
  LET x == api.x + dx
      y == api.y + dy
      logged == Note(u, WriteEvent(api, x, y))
  IN  IF InBounds(x, y)
      THEN write_cell(logged, x, y, [cell EXCEPT !.clock = api.g % U8])
      ELSE logged

api_swap(u, api, dx, dy) ==
  LET here == api_get(u, api, 0, 0)
      there == api_get(u, api, dx, dy)
  IN  api_set(api_set(u, api, 0, 0, there), api, dx, dy, here)

api_rand_byte(u) == [u EXCEPT !.rng = NextRng(@)]

IsEmpty(c) == c.species = EMPTY

\* the byte the next draw yields; api_rand_byte advances the source
Draw(u) == ByteOf(NextRng(u.rng))
rand_dir(u) == (Draw(u) % 3) - 1
Coin(u) == IF Draw(u) % 2 = 0 THEN -1 ELSE 1

\* variant: the destination is written and the source is left as it was
api_move_copy(u, api, dx, dy, cell) ==
  api_set(u, api, dx, dy, cell)

\* convention (a): the source becomes Empty before the destination is written
api_move(u, api, dx, dy, cell) ==
  api_set(api_set(u, api, 0, 0, EMPTY_CELL), api, dx, dy, cell)

\* ---- element rules -------------------------------------------------------
\* variant: only the drawn down-diagonal is tried
update_sand_one_side(u, api, cell) ==
  LET dir == Coin(u)
      u1 == api_rand_byte(u)
      below == api_get(u, api, 0, 1)
  IN  IF IsEmpty(below) THEN api_move(u1, api, 0, 1, cell)
      ELSE IF IsEmpty(api_get(u, api, dir, 1)) THEN api_move(u1, api, dir, 1, cell)
      ELSE IF below.species = WATER THEN api_swap(u1, api, 0, 1)
      ELSE u1

update_sand(u, api, cell) ==
  LET dir == Coin(u)
      u1 == api_rand_byte(u)
      below == api_get(u, api, 0, 1)
  IN  IF IsEmpty(below) THEN api_move(u1, api, 0, 1, cell)
      ELSE IF IsEmpty(api_get(u, api, dir, 1)) THEN api_move(u1, api, dir, 1, cell)
      ELSE IF IsEmpty(api_get(u, api, -dir, 1)) THEN api_move(u1, api, -dir, 1, cell)
      ELSE IF below.species = WATER THEN api_swap(u1, api, 0, 1)
      ELSE u1

water_freefall(u, api, cell) ==
  LET u1 == api_rand_byte(u)
  IN  IF Draw(u) < WATER_RERANDOM
      THEN api_move(api_rand_byte(u1), api, 0, 1, [cell EXCEPT !.ra = Draw(u1)])
      ELSE api_move(u1, api, 0, 1, cell)

water_flow(u, api, cell) ==
  LET fdir == IF cell.ra % 2 = 1 THEN 1 ELSE -1
      flipped == IF cell.ra % 2 = 1 THEN cell.ra - 1 ELSE cell.ra + 1
  IN  IF IsEmpty(api_get(u, api, fdir, 0))
      THEN api_move(u, api, fdir, 0, cell)
      ELSE api_set(u, api, 0, 0, [cell EXCEPT !.ra = flipped])

update_water(u, api, cell) ==
  LET dir == Coin(u)
      u1 == api_rand_byte(u)
  IN  IF IsEmpty(api_get(u, api, 0, 1)) THEN water_freefall(u1, api, cell)
      ELSE IF IsEmpty(api_get(u, api, dir, 1)) THEN api_move(u1, api, dir, 1, cell)
      ELSE IF IsEmpty(api_get(u, api, -dir, 1)) THEN api_move(u1, api, -dir, 1, cell)
      ELSE water_flow(u1, api, cell)

NewSmoke(u) == Cell(SMOKE, 0, SMOKE_LIFE_MIN + (Draw(u) % (SMOKE_LIFE_MAX - SMOKE_LIFE_MIN + 1)), 0)
NewFire(u) == Cell(FIRE, 0, FIRE_LIFE_MIN + (Draw(u) % (FIRE_LIFE_MAX - FIRE_LIFE_MIN + 1)), 0)

NEIGHBOURS == << <<-1, -1>>, <<0, -1>>, <<1, -1>>, <<-1, 0>>,
                 <<1, 0>>, <<-1, 1>>, <<0, 1>>, <<1, 1>> >>

WaterNeighbours(u, api) ==
  {k \in 1 .. Len(NEIGHBOURS) :
     api_get(u, api, NEIGHBOURS[k][1], NEIGHBOURS[k][2]).species = WATER}

\* variant: the Fire cell turns into Smoke and the Water cell is left
fire_react_keep_water(u, api, k) ==
  api_set(api_rand_byte(u), api, 0, 0, NewSmoke(u))

\* Water + Fire -> two Smoke cells, consuming both
fire_react(u, api, k) ==
  LET u1 == api_rand_byte(u)
      u2 == api_rand_byte(u1)
  IN  api_set(api_set(u2, api, 0, 0, NewSmoke(u)),
              api, NEIGHBOURS[k][1], NEIGHBOURS[k][2], NewSmoke(u1))

\* variant: the aged cell is stored in place before the move is made
rise_rewrite(u, api, cell) ==
  LET d == rand_dir(u)
      u1 == api_set(api_rand_byte(u), api, 0, 0, cell)
  IN  IF IsEmpty(api_get(u, api, d, -1))
      THEN api_move(u1, api, d, -1, cell)
      ELSE u1

\* variant: the cell moves up whatever the destination holds
rise_over(u, api, cell) ==
  LET d == rand_dir(u)
      u1 == api_rand_byte(u)
  IN  IF InBounds(api.x + d, api.y - 1)
      THEN api_move(u1, api, d, -1, cell)
      ELSE api_set(u1, api, 0, 0, cell)

rise(u, api, cell) ==
  LET d == rand_dir(u)
      u1 == api_rand_byte(u)
  IN  IF IsEmpty(api_get(u, api, d, -1))
      THEN api_move(u1, api, d, -1, cell)
      ELSE api_set(u1, api, 0, 0, cell)

update_fire(u, api, cell) ==
  LET life == Max(cell.rb - 1, 0)
      wet == WaterNeighbours(u, api)
  IN  IF life = 0
      THEN api_set(api_rand_byte(u), api, 0, 0, NewSmoke(u))
      ELSE IF wet # {}
      THEN fire_react(u, api, CHOOSE k \in wet : \A j \in wet : k <= j)
      ELSE rise(u, api, [cell EXCEPT !.rb = life])

smoke_drift(u, api, cell) ==
  LET sd == Coin(u)
      u1 == api_rand_byte(u)
  IN  IF IsEmpty(api_get(u, api, sd, 0))
      THEN api_move(u1, api, sd, 0, cell)
      ELSE api_set(u1, api, 0, 0, cell)

update_smoke(u, api, cell) ==
  LET life == Max(cell.rb - 1, 0)
      u1 == api_rand_byte(u)
  IN  IF life = 0
      THEN api_set(u, api, 0, 0, EMPTY_CELL)
      ELSE IF Draw(u) < SMOKE_DRIFT
      THEN smoke_drift(u1, api, [cell EXCEPT !.rb = life])
      ELSE rise(u1, api, [cell EXCEPT !.rb = life])

\* variant: every species without a rule of its own falls through to Sand's
update_cell_default_sand(u, api, cell) ==
  CASE cell.species = WATER -> update_water(u, api, cell)
    [] cell.species = FIRE -> update_fire(u, api, cell)
    [] cell.species = SMOKE -> update_smoke(u, api, cell)
    [] OTHER -> update_sand(u, api, cell)

\* dispatch by species; Wall is never updated, Ghost cells are moved by the
\* group pass and the per-cell pass does nothing on them
update_cell(u, api, cell) ==
  CASE cell.species = SAND -> update_sand(u, api, cell)
    [] cell.species = WATER -> update_water(u, api, cell)
    [] cell.species = FIRE -> update_fire(u, api, cell)
    [] cell.species = SMOKE -> update_smoke(u, api, cell)
    [] OTHER -> u

\* ---- ghost groups: one rigid translation per group and tick -------------
XOf(i) == i % width
YOf(i) == i \div width

RECURSIVE SetToSeq(_)
SetToSeq(S) ==
  IF S = {} THEN <<>>
  ELSE LET m == CHOOSE a \in S : \A b \in S : a <= b
       IN  <<m>> \o SetToSeq(S \ {m})

GroupCells(u, gid) ==
  {i \in 0 .. (width * height - 1) :
     u.cells[i].species = GHOST /\ u.cells[i].ra = gid % U8}

GhostEntry(x, y) == [cx |-> x, cy |-> y, vx |-> 0, vy |-> 0, life |-> 0]

\* every body cell's destination is Empty or a cell of the same group
ghost_can_move(u, gid, P, sx, sy) ==
  \A i \in P :
    LET d == api_get(u, Api(XOf(i), YOf(i), 0), sx, sy)
    IN  IsEmpty(d) \/ (d.species = GHOST /\ d.ra = gid % U8)

RECURSIVE ghost_vacate(_, _, _, _, _)
ghost_vacate(u, ps, k, dests, g) ==
  IF k > Len(ps) THEN u
  ELSE ghost_vacate(
         IF ps[k] \in dests THEN u
         ELSE api_set(u, Api(XOf(ps[k]), YOf(ps[k]), g), 0, 0, EMPTY_CELL),
         ps, k + 1, dests, g)

RECURSIVE ghost_place(_, _, _, _, _, _, _)
ghost_place(u, ps, k, old, sx, sy, g) ==
  IF k > Len(ps) THEN u
  ELSE ghost_place(api_set(u, Api(XOf(ps[k]), YOf(ps[k]), g), sx, sy, old[ps[k]]),
                   ps, k + 1, old, sx, sy, g)

translate_group(u, gid, g) ==
  LET P == GroupCells(u, gid)
      e == u.ghosts[gid]
      u1 == api_rand_byte(u)
      u2 == api_rand_byte(u1)
      sx == Clamp(e.vx + rand_dir(u), -1, 1)
      sy == Clamp(e.vy + rand_dir(u1), -1, 1)
      ps == SetToSeq(P)
      dests == {Idx(XOf(i) + sx, YOf(i) + sy) : i \in P}
      noted == Note(u2, Event("group", gid, 0, sx, sy))
  IN  IF P = {}
      THEN \* the last cell was destroyed: the group is retired
           [u EXCEPT !.ghosts = [h \in (DOMAIN u.ghosts) \ {gid} |-> u.ghosts[h]]]
      ELSE IF sx = 0 /\ sy = 0
      THEN [u2 EXCEPT !.ghosts[gid].life = e.life + 1]
      ELSE IF ghost_can_move(u, gid, P, sx, sy)
      THEN [ghost_place(ghost_vacate(noted, ps, 1, dests, g), ps, 1, u.cells, sx, sy, g)
              EXCEPT !.ghosts[gid] = [cx |-> e.cx + sx, cy |-> e.cy + sy,
                                      vx |-> sx, vy |-> sy,
                                      life |-> e.life + 1]]
      ELSE \* blocked: pick a new velocity
           [api_rand_byte(api_rand_byte(u2)) EXCEPT
              !.ghosts[gid] = [cx |-> e.cx, cy |-> e.cy,
                               vx |-> rand_dir(u2), vy |-> rand_dir(api_rand_byte(u2)),
                               life |-> e.life + 1]]

RECURSIVE tick_ghosts(_, _, _, _)
tick_ghosts(u, gids, k, g) ==
  IF k > Len(gids) THEN u
  ELSE tick_ghosts(translate_group(u, gids[k], g), gids, k + 1, g)

\* ---- scheduler -----------------------------------------------------------
scan_order(n, scan_right) == [k \in 1 .. n |-> IF scan_right THEN k - 1 ELSE n - k]

\* chunks bottom row first; within a row in the scan direction
ChunkOrder(scan_right) ==
  [k \in 1 .. (chunks_w * chunks_h) |->
     (chunks_h - 1 - ((k - 1) \div chunks_w)) * chunks_w
       + scan_order(chunks_w, scan_right)[((k - 1) % chunks_w) + 1]]

\* cells of a snapshotted dirty rectangle, bottom-to-top, rows in scan direction
RectOrder(r, scan_right) ==
  LET rw == r.maxX - r.minX + 1
      rh == r.maxY - r.minY + 1
  IN  [k \in 1 .. (rw * rh) |->
         << IF scan_right THEN r.minX + ((k - 1) % rw) ELSE r.maxX - ((k - 1) % rw),
            r.maxY - ((k - 1) \div rw) >>]

\* variant: the scan does not look at the clock stamp
visit_cell_unstamped(u, x, y, g) ==
  LET cell == u.cells[Idx(x, y)]
  IN  IF cell.species = EMPTY
      THEN u
      ELSE update_cell(Note(u, RuleEvent(x, y)), Api(x, y, g), cell)

visit_cell(u, x, y, g) ==
  LET cell == u.cells[Idx(x, y)]
  IN  IF cell.species = EMPTY \/ cell.clock = g % U8
      THEN u
      ELSE update_cell(Note(u, RuleEvent(x, y)), Api(x, y, g), cell)

\* the cells order[lo..hi] in order; each cell is processed to completion
\* before the scan moves on to the next
RECURSIVE scan_span(_, _, _, _, _)
scan_span(u, order, lo, hi, g) ==
  IF lo > hi THEN u
  ELSE IF lo = hi THEN visit_cell(u, order[lo][1], order[lo][2], g)
  ELSE LET mid == (lo + hi) \div 2
           first == scan_span(u, order, lo, mid, g)
       IN  IF first.rng \in Nat THEN scan_span(first, order, mid + 1, hi, g)
           ELSE first

scan_cells(u, order, k, g) == scan_span(u, order, k, Len(order), g)

\* variant: the dirty flag is cleared after the chunk has been iterated
scan_chunk_late_clear(u, c, g, scan_right) ==
  IF ~u.chunks[c].dirty THEN u
  ELSE [scan_cells(Note(u, Event("scan", c, 0, 0, 0)),
                   RectOrder(u.chunks[c], scan_right), 1, g)
          EXCEPT !.chunks[c] = CLEAN_CHUNK]

\* variant: a dirty chunk is iterated whole instead of its dirty rectangle
scan_chunk_whole(u, c, g, scan_right) ==
  LET cx == (c % chunks_w) * chunk_size
      cy == (c \div chunks_w) * chunk_size
      all == [dirty |-> TRUE, minX |-> cx, minY |-> cy,
              maxX |-> Min(cx + chunk_size, width) - 1,
              maxY |-> Min(cy + chunk_size, height) - 1]
  IN  IF ~u.chunks[c].dirty THEN u
      ELSE scan_cells(Note([u EXCEPT !.chunks[c] = CLEAN_CHUNK], Event("scan", c, 0, 0, 0)),
                      RectOrder(all, scan_right), 1, g)

\* variant: the dirty flag is left set when a chunk is scanned
scan_chunk_keep_dirty(u, c, g, scan_right) ==
  IF ~u.chunks[c].dirty THEN u
  ELSE scan_cells(Note(u, Event("scan", c, 0, 0, 0)),
                  RectOrder(u.chunks[c], scan_right), 1, g)

\* snapshot the dirty rectangle, clear the flag, then iterate
scan_chunk(u, c, g, scan_right) ==
  IF ~u.chunks[c].dirty THEN u
  ELSE scan_cells(Note([u EXCEPT !.chunks[c] = CLEAN_CHUNK], Event("scan", c, 0, 0, 0)),
                  RectOrder(u.chunks[c], scan_right), 1, g)

RECURSIVE scan_chunks(_, _, _, _, _)
scan_chunks(u, order, k, g, scan_right) ==
  IF k > Len(order) THEN u
  ELSE scan_chunks(scan_chunk(u, order[k], g, scan_right), order, k + 1, g, scan_right)

tick_universe(u, g) ==
  LET scan_right == (g % 2 = 0)
      moved == tick_ghosts([u EXCEPT !.log = <<>>], SetToSeq(DOMAIN u.ghosts), 1, g)
  IN  scan_chunks(moved, ChunkOrder(scan_right), 1, g, scan_right)

\* ---- paint endpoints -----------------------------------------------------
painted_cell(u, species) ==
  CASE species = SAND -> Cell(SAND, Draw(u), 0, 0)
    [] species = WATER -> Cell(WATER, Draw(u), 0, 0)
    [] species = FIRE -> NewFire(u)
    [] species = SMOKE -> NewSmoke(u)
    [] species \in {WALL, GHOST} -> Cell(species, 0, 0, 0)
    [] OTHER -> EMPTY_CELL

paint_uses_rng(species) == species \in {SAND, WATER, FIRE, SMOKE}

PaintEvent(x, y) == Event("paint", x, y, x, y)

\* variant: a paint updates the cell store and the chunk index only, leaving
\* the render view to be rebuilt by the next tick
paint_cell_stale_view(u, x, y, species) ==
  LET px == Clamp(x, 0, width - 1)
      py == Clamp(y, 0, height - 1)
      v == Note(IF paint_uses_rng(species) THEN api_rand_byte(u) ELSE u,
                PaintEvent(px, py))
  IN  [v EXCEPT !.cells[Idx(px, py)] = painted_cell(u, species),
                !.chunks = mark_dirty(@, px, py)]

\* a direct write: the clock is not stamped
paint_cell(u, x, y, species) ==
  LET px == Clamp(x, 0, width - 1)
      py == Clamp(y, 0, height - 1)
  IN  write_cell(Note(IF paint_uses_rng(species) THEN api_rand_byte(u) ELSE u,
                      PaintEvent(px, py)),
                 px, py, painted_cell(u, species))

paint_ghost(u, x, y, group) ==
  LET px == Clamp(x, 0, width - 1)
      py == Clamp(y, 0, height - 1)
      known == group \in DOMAIN u.ghosts
      table == [h \in (DOMAIN u.ghosts) \cup {group} |->
                  IF h = group /\ ~known THEN GhostEntry(px, py) ELSE u.ghosts[h]]
  IN  write_cell(Note([u EXCEPT !.ghosts = table], PaintEvent(px, py)),
                 px, py, Cell(GHOST, group % U8, 0, 0))

\* ---- the input handler ---------------------------------------------------
\* Math.floor(screenNorm * gridSize) clamped to [0, gridSize-1]; screenNorm
\* is the ratio num/den of pixel distances (den > 0)
screenToGridCoord(num, den, gridSize) ==
  Max(0, Min(gridSize - 1, (num * gridSize) \div den))

\* Bresenham: one pass through the loop body of interpolateLine; `st` holds
\* the loop variables, the points pushed so far, and whether the loop has
\* reached its break
line_step(st) ==
  IF st.done THEN st
  ELSE LET pushed == Append(st.points, <<st.cx, st.cy>>)
           e2 == 2 * st.err
           stepx == e2 >= st.dy
           stepy == e2 <= st.dx
       IN  IF st.cx = st.x1 /\ st.cy = st.y1
           THEN [st EXCEPT !.points = pushed, !.done = TRUE]
           ELSE [st EXCEPT !.points = pushed,
                           !.cx = IF stepx THEN @ + st.sx ELSE @,
                           !.cy = IF stepy THEN @ + st.sy ELSE @,
                           !.err = @ + (IF stepx THEN st.dy ELSE 0)
                                     + (IF stepy THEN st.dx ELSE 0)]

\* n passes through the loop body, one after the other
RECURSIVE line_run(_, _)
line_run(st, n) ==
  IF n = 0 THEN st
  ELSE IF n = 1 THEN line_step(st)
  ELSE LET half == line_run(st, n \div 2)
       IN  IF half.done \in BOOLEAN THEN line_run(half, n - (n \div 2))
           ELSE half

\* the loop from its start; a line of dx by dy cells needs at most dx + dy + 1
\* passes, and a loop still running after that many never returns (no points)
line_from(x0, y0, x1, y1) ==
  LET dx == Abs(x1 - x0)
      dy == -Abs(y1 - y0)
      st == [cx |-> x0, cy |-> y0, err |-> dx + dy, x1 |-> x1, y1 |-> y1,
             dx |-> dx, dy |-> dy,
             sx |-> IF x0 < x1 THEN 1 ELSE -1,
             sy |-> IF y0 < y1 THEN 1 ELSE -1,
             points |-> <<>>, done |-> FALSE]
      run == line_run(st, dx - dy + 1)
  IN  IF run.done THEN run.points ELSE <<>>

\* variant: the line stops one point short of its end
interpolateLine_open(x0, y0, x1, y1) ==
  LET line == line_from(x0, y0, x1, y1)
  IN  SubSeq(line, 1, Len(line) - 1)

interpolateLine(x0, y0, x1, y1) == line_from(x0, y0, x1, y1)

\* variant: the whole square around the centre is painted
brushCells_square(cx, cy, radius, gridWidth, gridHeight) ==
  LET side == 2 * radius + 1
      box == [k \in 1 .. (side * side) |->
                << ((k - 1) % side) - radius, ((k - 1) \div side) - radius >>]
      Inside(d) ==
        ~(cx + d[1] < 0 \/ cx + d[1] >= gridWidth
            \/ cy + d[2] < 0 \/ cy + d[2] >= gridHeight)
      kept == SelectSeq(box, Inside)
  IN  [k \in 1 .. Len(kept) |-> <<cx + kept[k][1], cy + kept[k][2]>>]

\* variant: the cells of the circle are not tested against the grid
brushCells_unclipped(cx, cy, radius, gridWidth, gridHeight) ==
  LET side == 2 * radius + 1
      box == [k \in 1 .. (side * side) |->
                << ((k - 1) % side) - radius, ((k - 1) \div side) - radius >>]
      Inside(d) == d[1] * d[1] + d[2] * d[2] <= radius * radius
      kept == SelectSeq(box, Inside)
  IN  [k \in 1 .. Len(kept) |-> <<cx + kept[k][1], cy + kept[k][2]>>]

\* the cells of a filled circle, rows top to bottom, without those off the grid
brushCells(cx, cy, radius, gridWidth, gridHeight) ==
  LET side == 2 * radius + 1
      box == [k \in 1 .. (side * side) |->
                << ((k - 1) % side) - radius, ((k - 1) \div side) - radius >>]
      Inside(d) ==
        /\ d[1] * d[1] + d[2] * d[2] <= radius * radius
        /\ ~(cx + d[1] < 0 \/ cx + d[1] >= gridWidth
               \/ cy + d[2] < 0 \/ cy + d[2] >= gridHeight)
      kept == SelectSeq(box, Inside)
  IN  [k \in 1 .. Len(kept) |-> <<cx + kept[k][1], cy + kept[k][2]>>]

DrawCommand(x, y, species) == [x |-> x, y |-> y, species |-> species]
NO_POS == <<>>

\* the fields of a new InputHandler
NewInputHandler ==
  [selectedSpecies |-> SAND, brushRadius |-> 2, isDrawing |-> FALSE,
   lastPos |-> NO_POS, commands |-> <<>>]

paintBrush(h, cx, cy) ==
  LET cs == brushCells(cx, cy, h.brushRadius, width, height)
  IN  [h EXCEPT !.commands =
         @ \o [k \in 1 .. Len(cs) |-> DrawCommand(cs[k][1], cs[k][2], h.selectedSpecies)]]

RECURSIVE paint_points(_, _, _)
paint_points(h, points, k) ==
  IF k > Len(points) THEN h
  ELSE paint_points(paintBrush(h, points[k][1], points[k][2]), points, k + 1)

interpolateAndPaint(h, x0, y0, x1, y1) ==
  paint_points(h, interpolateLine(x0, y0, x1, y1), 1)

\* the canvas rectangle on screen, in pixels; e = <<clientX, clientY>>
CANVAS_LEFT == 0
CANVAS_TOP == 0
CanvasW == 2 * GridW
CanvasH == 2 * GridH

screenToGrid(e) ==
  << screenToGridCoord(e[1] - CANVAS_LEFT, CanvasW, width),
     screenToGridCoord(e[2] - CANVAS_TOP, CanvasH, height) >>

handlePointerDown(h, e) ==
  LET pos == screenToGrid(e)
  IN  paintBrush([h EXCEPT !.isDrawing = TRUE, !.lastPos = pos], pos[1], pos[2])

\* variant: a move paints whether or not a stroke is open
handlePointerMove_always(h, e) ==
  LET pos == screenToGrid(e)
  IN  [(IF h.lastPos # NO_POS
        THEN interpolateAndPaint(h, h.lastPos[1], h.lastPos[2], pos[1], pos[2])
        ELSE paintBrush(h, pos[1], pos[2]))
         EXCEPT !.lastPos = pos]

handlePointerMove(h, e) ==
  LET pos == screenToGrid(e)
  IN  IF ~h.isDrawing THEN h
      ELSE [(IF h.lastPos # NO_POS
             THEN interpolateAndPaint(h, h.lastPos[1], h.lastPos[2], pos[1], pos[2])
             ELSE paintBrush(h, pos[1], pos[2]))
              EXCEPT !.lastPos = pos]

handlePointerUp(h) == [h EXCEPT !.isDrawing = FALSE, !.lastPos = NO_POS]

\* variant: the buffer is returned and kept
flush_keep(h) == [out |-> h.commands, handler |-> h]

\* the pending commands, and the handler with its buffer cleared
flush(h) == [out |-> h.commands, handler |-> [h EXCEPT !.commands = <<>>]]

\* ---- the host before anything has happened -------------------------------
NO_REFS == [universe |-> FALSE, renderer |-> FALSE, input |-> FALSE,
            memory |-> FALSE, raf |-> 0, paused |-> FALSE]

\* the pointer events seen so far, as strokes: `open` after a pointerdown and
\* until the next pointerup, `down` the grid position of that pointerdown,
\* `moves` the pointermoves since, `at` the position of the latest event of a
\* stroke, `prev` what `at` was when the open stroke began, `strokes` the
\* pointerdowns and `idle` the pointermoves outside a stroke
NO_STROKE == [open |-> FALSE, down |-> NO_POS, moves |-> 0, at |-> NO_POS,
              prev |-> NO_POS, strokes |-> 0, idle |-> 0]

NO_HIST == [queued |-> <<>>, handed |-> <<>>, frameLog |-> <<>>,
            uploaded |-> <<>>, requests |-> 0, events |-> 0, resets |-> 0,
            rendered |-> 0, stroke |-> NO_STROKE]

\* no Universe constructed yet: `ref` is the object universeRef holds and
\* `local` the one init's variable `universe` holds (0: none), `misused` the
\* methods called on an object after its free()
NO_HEAP == [made |-> 0, ref |-> 0, local |-> 0, freed |-> {}, misused |-> {}]

\* loadSimulation.ts before the first call
\* (objects are numbered from 1; 0 is null. `imports` and `inits` count the
\* module imports and the WASM inits started, `calls` lists what each call of
\* loadSimulation returned)
NO_PROMISE == [state |-> "null", value |-> 0]
NO_LOADER == [wasmInstance |-> 0, wasmLoading |-> NO_PROMISE, pc |-> "idle",
              imports |-> 0, inits |-> 0, built |-> 0, calls |-> <<>>]

NO_PROBE == [fn |-> "none", args |-> <<>>, out |-> <<>>]

PageOff ==
  /\ status = "loading"
  /\ errorMsg = <<>>
  /\ cancelled = FALSE
  /\ heap = NO_HEAP
  /\ loader = NO_LOADER
  /\ probe = NO_PROBE

HostOff ==
  /\ refs = NO_REFS
  /\ frames = {}
  /\ initPc = "mount"
  /\ resetThen = 0
  /\ input = NewInputHandler
  /\ hist = NO_HIST
  /\ PageOff

\* ---- the Universe as a state machine ------------------------------------
Commit(u) ==
  /\ cells' = u.cells
  /\ render' = u.render
  /\ chunks' = u.chunks
  /\ rng' = u.rng
  /\ ghosts' = u.ghosts
  /\ tickLog' = u.log

PaintSpecies == {EMPTY, SAND, WATER, WALL, FIRE, SMOKE}

Init ==
  /\ width = GridW
  /\ height = GridH
  /\ chunk_size = CHUNK_SIZE
  /\ cells = [i \in 0 .. (GridW * GridH - 1) |-> EMPTY_CELL]
  /\ render = [i \in 0 .. (2 * GridW * GridH - 1) |-> 0]
  /\ chunks = [c \in 0 .. (((GridW + CHUNK_SIZE - 1) \div CHUNK_SIZE)
                          * ((GridH + CHUNK_SIZE - 1) \div CHUNK_SIZE) - 1) |-> CLEAN_CHUNK]
  /\ generation = 0
  /\ rng \in 1 .. MaxSeed
  /\ ghosts = [h \in {} |-> GhostEntry(0, 0)]
  /\ next_group = 0
  /\ paints = 0
  /\ tickLog = <<>>
  /\ HostOff

paint_step(x, y, species) ==
  /\ paints' = paints + 1
  /\ Commit(paint_cell(Universe, x, y, species))
  /\ UNCHANGED <<width, height, chunk_size, generation, next_group>>
  /\ UNCHANGED hostVars

set_cell(x, y, species) ==
  /\ paints < MaxPaint
  /\ paint_step(x, y, species)

alloc_ghost_group ==
  /\ next_group < MaxGroups
  /\ next_group' = next_group + 1
  /\ UNCHANGED <<width, height, chunk_size, cells, render, chunks, generation,
                 rng, ghosts, paints, tickLog>>
  /\ UNCHANGED hostVars

set_ghost(x, y, group) ==
  /\ paints < MaxPaint
  /\ paints' = paints + 1
  /\ Commit(paint_ghost(Universe, x, y, group))
  /\ UNCHANGED <<width, height, chunk_size, generation, next_group>>
  /\ UNCHANGED hostVars

\* generation is a u32 incremented with wrapping_add; 2^32 is a multiple of
\* 256, so the wrap is invisible to the clock byte and lies beyond any run here
tick_step ==
  /\ generation' = generation + 1
  /\ Commit(tick_universe(Universe, generation + 1))
  /\ UNCHANGED <<width, height, chunk_size, next_group, paints>>
  /\ UNCHANGED hostVars

tick ==
  /\ generation < MaxTicks
  /\ tick_step

Next ==
  \/ \E x \in 0 .. (width - 1), y \in 0 .. (height - 1), s \in PaintSpecies :
       set_cell(x, y, s)
  \/ alloc_ghost_group
  \/ \E x \in 0 .. (width - 1), y \in 0 .. (height - 1), g \in 0 .. (next_group - 1) :
       set_ghost(x, y, g)
  \/ tick

Spec == Init /\ [][Next]_vars

\* ---- scenario S1: a single Sand grain on an empty square grid ------------
S1_SIZE == 8

S1Init ==
  /\ width = S1_SIZE
  /\ height = S1_SIZE
  /\ chunk_size = CHUNK
  /\ cells = [i \in 0 .. (S1_SIZE * S1_SIZE - 1) |-> EMPTY_CELL]
  /\ render = [i \in 0 .. (2 * S1_SIZE * S1_SIZE - 1) |-> 0]
  /\ chunks = [c \in 0 .. (((S1_SIZE + CHUNK - 1) \div CHUNK)
                          * ((S1_SIZE + CHUNK - 1) \div CHUNK) - 1) |-> CLEAN_CHUNK]
  /\ generation = 0
  /\ rng \in 1 .. MaxSeed
  /\ ghosts = [h \in {} |-> GhostEntry(0, 0)]
  /\ next_group = 0
  /\ paints = 0
  /\ tickLog = <<>>
  /\ HostOff

S1Paint ==
  /\ paints = 0
  /\ \E x \in 0 .. (width - 1) : set_cell(x, 0, SAND)

S1Tick ==
  /\ paints = 1
  /\ generation < height + 2
  /\ tick_step

S1Next == S1Paint \/ S1Tick

SpecS1 == S1Init /\ [][S1Next]_vars

\* ---- scenarios on an empty grid with the core's chunk size ---------------
ScenarioSeeds == 40

\* a freshly constructed w x h Universe
Fresh(w, h) ==
  /\ width = w
  /\ height = h
  /\ chunk_size = CHUNK
  /\ cells = [i \in 0 .. (w * h - 1) |-> EMPTY_CELL]
  /\ render = [i \in 0 .. (2 * w * h - 1) |-> 0]
  /\ chunks = [c \in 0 .. (((w + CHUNK - 1) \div CHUNK)
                          * ((h + CHUNK - 1) \div CHUNK) - 1) |-> CLEAN_CHUNK]
  /\ generation = 0
  /\ rng \in 1 .. ScenarioSeeds
  /\ ghosts = [h0 \in {} |-> GhostEntry(0, 0)]
  /\ next_group = 0
  /\ paints = 0
  /\ tickLog = <<>>
  /\ HostOff

\* ---- scenario S4: Fire painted on top of Water ----------------------------
S4_TICKS == 2

S4Init == Fresh(8, 8)

S4PaintWater ==
  /\ paints = 0
  /\ paint_step(4, 4, WATER)

S4PaintFire ==
  /\ paints = 1
  /\ paint_step(4, 3, FIRE)

S4Tick ==
  /\ paints = 2
  /\ generation < S4_TICKS
  /\ tick_step

S4Next == S4PaintWater \/ S4PaintFire \/ S4Tick

SpecS4 == S4Init /\ [][S4Next]_vars

\* ---- scenario S5: a Fire cell with two ticks of life left -----------------
S5_TICKS == 3

\* the paint path with an explicit rb
paint_cell_rb(u, x, y, species, rb) ==
  write_cell(Note(u, PaintEvent(x, y)), x, y, Cell(species, 0, rb, 0))

S5Init == Fresh(4, 4)

S5Paint ==
  /\ paints = 0
  /\ paints' = 1
  /\ Commit(paint_cell_rb(Universe, 2, 2, FIRE, 2))
  /\ UNCHANGED <<width, height, chunk_size, generation, next_group>>
  /\ UNCHANGED hostVars

S5Tick ==
  /\ paints = 1
  /\ generation < S5_TICKS
  /\ tick_step

S5Next == S5Paint \/ S5Tick

SpecS5 == S5Init /\ [][S5Next]_vars

\* ---- scenario S2: Sand poured on a Wall segment ---------------------------
S2_TICKS == 20
S2_WALL_Y == 10
S2_WALL_X0 == 4
S2_WALL_X1 == 12
S2_WALL_LEN == S2_WALL_X1 - S2_WALL_X0 + 1

S2Init == Fresh(16, 16)

\* the Wall segment is drawn first, one cell per paint command
S2PaintWall ==
  /\ paints < S2_WALL_LEN
  /\ paint_step(S2_WALL_X0 + paints, S2_WALL_Y, WALL)

\* then every frame paints Sand at (8,0) and ticks once
S2PaintSand ==
  /\ paints >= S2_WALL_LEN
  /\ paints - S2_WALL_LEN = generation
  /\ generation < S2_TICKS
  /\ paint_step(8, 0, SAND)

S2Tick ==
  /\ paints - S2_WALL_LEN = generation + 1
  /\ tick_step

S2Next == S2PaintWall \/ S2PaintSand \/ S2Tick

SpecS2 == S2Init /\ [][S2Next]_vars

\* ---- scenario S3: Water poured into a U-shaped basin -----------------------
S3_TICKS == 200
S3_WATER == 60
S3_FLOOR_Y == 14
S3_LEFT_X == 2
S3_RIGHT_X == 13
S3_TOP_Y == 8

\* the Wall cells of the basin: the floor, then the two sides above it
S3Walls ==
  [k \in 1 .. (S3_RIGHT_X - S3_LEFT_X + 1) |-> <<S3_LEFT_X + k - 1, S3_FLOOR_Y>>]
    \o [k \in 1 .. (S3_FLOOR_Y - S3_TOP_Y) |-> <<S3_LEFT_X, S3_TOP_Y + k - 1>>]
    \o [k \in 1 .. (S3_FLOOR_Y - S3_TOP_Y) |-> <<S3_RIGHT_X, S3_TOP_Y + k - 1>>]

S3Init == Fresh(16, 16)

S3PaintWall ==
  /\ paints < Len(S3Walls)
  /\ paint_step(S3Walls[paints + 1][1], S3Walls[paints + 1][2], WALL)

\* one Water cell is painted at (7,8) before each of the first 60 ticks
S3PaintWater ==
  /\ paints >= Len(S3Walls)
  /\ paints - Len(S3Walls) = generation
  /\ generation < S3_WATER
  /\ paint_step(7, S3_TOP_Y, WATER)

S3Tick ==
  /\ \/ paints - Len(S3Walls) = generation + 1
     \/ (paints = Len(S3Walls) + S3_WATER /\ generation >= S3_WATER)
  /\ generation < S3_TICKS
  /\ tick_step

S3Next == S3PaintWall \/ S3PaintWater \/ S3Tick

SpecS3 == S3Init /\ [][S3Next]_vars

\* ---- a paint at any value of the clock byte -------------------------------
\* the Universe idles on an empty grid for up to 255 ticks, one particle is
\* painted, and one more tick runs
WrapInit == Fresh(4, 4)

WrapIdle ==
  /\ paints = 0
  /\ generation < U8 - 1
  /\ tick_step

WrapPaint ==
  /\ paints = 0
  /\ \E s \in {SAND, WATER, FIRE, SMOKE} : paint_step(1, 1, s)

WrapTick ==
  /\ paints = 1
  /\ Len(tickLog) > 0
  /\ tickLog[Len(tickLog)].k = "paint"
  /\ tick_step

WrapNext == WrapIdle \/ WrapPaint \/ WrapTick

SpecWrap == WrapInit /\ [][WrapNext]_vars

\* ---- a settled grain a whole clock period later ------------------------------
\* a Sand grain is painted on the empty 4x4 grid and falls to the floor, the
\* Universe ticks on until the generation is 256, cells around the grain are
\* painted or erased, and one more tick runs
STAMP_PAINTS == 3

StampInit == Fresh(4, 4)

StampDrop ==
  /\ paints = 0
  /\ \E x \in 1 .. 2 : paint_step(x, 2, SAND)

StampTick ==
  /\ paints = 1
  /\ generation < U8
  /\ tick_step

StampPaint ==
  /\ paints \in 1 .. (STAMP_PAINTS - 1)
  /\ generation = U8
  /\ \E x \in 0 .. (width - 1), y \in 2 .. (height - 1), s \in {EMPTY, WALL} :
       /\ cells[Idx(x, y)].species = EMPTY
       /\ paint_step(x, y, s)

StampLast ==
  /\ paints > 1
  /\ generation = U8
  /\ tick_step

StampNext == StampDrop \/ StampTick \/ StampPaint \/ StampLast

SpecStamp == StampInit /\ [][StampNext]_vars

\* ---- a grid of Sand and Wall left to itself ----------------------------------
\* Sand, Wall and Empty are painted on the new grid, then the Universe only
\* ticks; the ticks go on for as long as the run lasts
SETTLE_PAINTS == 3
SETTLE_TICKS == 6

SettlePaint ==
  /\ generation = 0
  /\ paints < SETTLE_PAINTS
  /\ \E x \in 0 .. (width - 1), y \in 0 .. (height - 1), s \in {EMPTY, SAND, WALL} :
       paint_step(x, y, s)

SettleTick ==
  /\ generation < SETTLE_TICKS
  /\ tick_step

SettleNext == SettlePaint \/ SettleTick

\* ticks continue: the step that advances the generation is taken for as long
\* as it can be.  SettleTick is the only step that advances the generation and
\* it can be taken whenever the generation is below SETTLE_TICKS.
TickDue == generation < SETTLE_TICKS /\ generation' = generation + 1

SpecSettle == Init /\ [][SettleNext]_vars /\ WF_generation(TickDue)

\* ---- Universes of every small size ------------------------------------------
\* new(w, h) for every w, h up to MaxSide, tiled by the core's chunk (every
\* such grid is smaller than one chunk) or by the small tile (grids of one
\* partial tile, of whole tiles, and of whole tiles plus a partial edge);
\* one cell is painted and one tick runs
MaxSide == 5

Sized(w, h, cs) ==
  /\ width = w
  /\ height = h
  /\ chunk_size = cs
  /\ cells = [i \in 0 .. (w * h - 1) |-> EMPTY_CELL]
  /\ render = [i \in 0 .. (2 * w * h - 1) |-> 0]
  /\ chunks = [c \in 0 .. (((w + cs - 1) \div cs) * ((h + cs - 1) \div cs) - 1)
                 |-> CLEAN_CHUNK]
  /\ generation = 0
  /\ rng \in 1 .. MaxSeed
  /\ ghosts = [h0 \in {} |-> GhostEntry(0, 0)]
  /\ next_group = 0
  /\ paints = 0
  /\ tickLog = <<>>
  /\ HostOff

GridInit == \E w \in 1 .. MaxSide, h \in 1 .. MaxSide, cs \in {CHUNK_SIZE, CHUNK} :
              Sized(w, h, cs)

GridPaint ==
  /\ paints = 0
  /\ \E x \in 0 .. (width - 1), y \in 0 .. (height - 1), s \in PaintSpecies :
       paint_step(x, y, s)

GridTick ==
  /\ paints = 1
  /\ generation = 0
  /\ tick_step

GridNext == GridPaint \/ GridTick

SpecGrid == GridInit /\ [][GridNext]_vars

\* ---- one rule invocation on a small grid ------------------------------------
\* particles are painted on the new grid, row by row (Fire and Smoke also with
\* a lifetime that is about to run out), and the scan's per-cell step is taken
\* once, on any cell, as the first step of tick 1
RULE_SIDE == 3
RULE_PAINTS == 3

RuleInit == Sized(RULE_SIDE, RULE_SIDE, CHUNK)

RuleRan == Len(tickLog) > 0 /\ tickLog[1].k = "rule"

\* (x, y) comes after every cell painted so far
Unpainted(x, y) == \A j \in 1 .. Len(tickLog) : Idx(tickLog[j].x, tickLog[j].y) < Idx(x, y)

RulePaint ==
  /\ paints < RULE_PAINTS
  /\ ~RuleRan
  /\ \E x \in 0 .. (width - 1), y \in 0 .. (height - 1),
        s \in {SAND, WATER, WALL, FIRE, SMOKE} :
       Unpainted(x, y) /\ paint_step(x, y, s)

RulePaintLife ==
  /\ paints < RULE_PAINTS
  /\ ~RuleRan
  /\ paints' = paints + 1
  /\ \E x \in 0 .. (width - 1), y \in 0 .. (height - 1), s \in {FIRE, SMOKE}, rb \in 1 .. 2 :
       Unpainted(x, y) /\ Commit(paint_cell_rb(Universe, x, y, s, rb))
  /\ UNCHANGED <<width, height, chunk_size, generation, next_group>>
  /\ UNCHANGED hostVars

RuleRun ==
  /\ ~RuleRan
  /\ generation = 0
  /\ generation' = 1
  /\ \E x \in 0 .. (width - 1), y \in 0 .. (height - 1) :
       /\ cells[Idx(x, y)].species # EMPTY
       /\ Commit(visit_cell([Universe EXCEPT !.log = <<>>], x, y, 1))
  /\ UNCHANGED <<width, height, chunk_size, next_group, paints>>
  /\ UNCHANGED hostVars

RuleNext == RulePaint \/ RulePaintLife \/ RuleRun

SpecRule == RuleInit /\ [][RuleNext]_vars

\* ---- ghost groups among obstacles --------------------------------------------
\* group ids are allocated (a few, or enough for the id to pass the width of
\* the ra register), Ghost cells of the first and the last group and Wall and
\* Sand cells are painted row by row, and the Universe ticks
GHOST_PAINTS == 3
GHOST_TICKS == 2

GhostAlloc ==
  /\ paints = 0
  /\ next_group < U8 + 1
  /\ next_group' = next_group + 1
  /\ UNCHANGED <<width, height, chunk_size, cells, render, chunks, generation,
                 rng, ghosts, paints, tickLog>>
  /\ UNCHANGED hostVars

GhostPaint ==
  /\ generation = 0
  /\ paints < GHOST_PAINTS
  /\ next_group \in {2, U8 + 1}
  /\ \E x \in 0 .. (width - 1), y \in 0 .. (height - 1) :
       /\ Unpainted(x, y)
       /\ \/ \E g \in {0, next_group - 1} :
               /\ paints' = paints + 1
               /\ Commit(paint_ghost(Universe, x, y, g))
               /\ UNCHANGED <<width, height, chunk_size, generation, next_group>>
               /\ UNCHANGED hostVars
          \/ \E s \in {WALL, SAND} : paint_step(x, y, s)

GhostTick ==
  /\ paints > 0
  /\ generation < GHOST_TICKS
  /\ tick_step

GhostNext == GhostAlloc \/ GhostPaint \/ GhostTick

SpecGhost == Init /\ [][GhostNext]_vars

\* ---- the input handler on its own ------------------------------------------
MaxEvents == 2
MaxBrush == 2

\* pointer positions in pixels: left of the canvas (far and near), inside it
\* (middle and last pixel) and right of it; above and below it
PointerXs == {-CanvasW, -1, CanvasW \div 2, CanvasW - 1, CanvasW}
PointerYs == {-1, CanvasH}

\* what an event handler of the InputHandler leaves behind: the handler, and
\* in the history the commands it queued
Handled(h) ==
  /\ input' = h
  /\ hist' = [hist EXCEPT
                !.queued = @ \o SubSeq(h.commands, Len(input.commands) + 1, Len(h.commands)),
                !.events = @ + 1]

pointerdown(e) ==
  /\ refs.input
  /\ hist.events < MaxEvents
  /\ Handled(handlePointerDown(input, e))
  /\ UNCHANGED <<width, height, chunk_size, cells, render, chunks, generation,
                 rng, ghosts, next_group, paints, tickLog>>
  /\ UNCHANGED <<refs, frames, initPc, resetThen>>
  /\ UNCHANGED pageVars

pointermove(e) ==
  /\ refs.input
  /\ hist.events < MaxEvents
  /\ Handled(handlePointerMove(input, e))
  /\ UNCHANGED <<width, height, chunk_size, cells, render, chunks, generation,
                 rng, ghosts, next_group, paints, tickLog>>
  /\ UNCHANGED <<refs, frames, initPc, resetThen>>
  /\ UNCHANGED pageVars

pointerup ==
  /\ refs.input
  /\ hist.events < MaxEvents
  /\ Handled(handlePointerUp(input))
  /\ UNCHANGED <<width, height, chunk_size, cells, render, chunks, generation,
                 rng, ghosts, next_group, paints, tickLog>>
  /\ UNCHANGED <<refs, frames, initPc, resetThen>>
  /\ UNCHANGED pageVars

setSpecies(species) ==
  /\ refs.input
  /\ input.selectedSpecies # species
  /\ input' = [input EXCEPT !.selectedSpecies = species]
  /\ UNCHANGED <<width, height, chunk_size, cells, render, chunks, generation,
                 rng, ghosts, next_group, paints, tickLog>>
  /\ UNCHANGED <<refs, frames, initPc, resetThen, hist>>
  /\ UNCHANGED pageVars

setBrushRadius(radius) ==
  /\ refs.input
  /\ input.brushRadius # Max(0, radius)
  /\ input' = [input EXCEPT !.brushRadius = Max(0, radius)]
  /\ UNCHANGED <<width, height, chunk_size, cells, render, chunks, generation,
                 rng, ghosts, next_group, paints, tickLog>>
  /\ UNCHANGED <<refs, frames, initPc, resetThen, hist>>
  /\ UNCHANGED pageVars

\* a caller takes the pending commands
take_commands ==
  /\ refs.input
  /\ input.commands # <<>>
  /\ input' = flush(input).handler
  /\ hist' = [hist EXCEPT !.handed = @ \o flush(input).out]
  /\ UNCHANGED <<width, height, chunk_size, cells, render, chunks, generation,
                 rng, ghosts, next_group, paints, tickLog>>
  /\ UNCHANGED <<refs, frames, initPc, resetThen>>
  /\ UNCHANGED pageVars

InputInit ==
  /\ width = GridW
  /\ height = GridH
  /\ chunk_size = CHUNK_SIZE
  /\ cells = [i \in 0 .. (GridW * GridH - 1) |-> EMPTY_CELL]
  /\ render = [i \in 0 .. (2 * GridW * GridH - 1) |-> 0]
  /\ chunks = [c \in 0 .. (((GridW + CHUNK_SIZE - 1) \div CHUNK_SIZE)
                          * ((GridH + CHUNK_SIZE - 1) \div CHUNK_SIZE) - 1) |-> CLEAN_CHUNK]
  /\ generation = 0
  /\ rng = 1
  /\ ghosts = [h0 \in {} |-> GhostEntry(0, 0)]
  /\ next_group = 0
  /\ paints = 0
  /\ tickLog = <<>>
  /\ refs = [NO_REFS EXCEPT !.input = TRUE]
  /\ frames = {}
  /\ initPc = "mount"
  /\ resetThen = 0
  /\ input = NewInputHandler
  /\ hist = NO_HIST
  /\ PageOff

InputNext ==
  \/ \E x \in PointerXs, y \in PointerYs : pointerdown(<<x, y>>)
  \/ \E x \in PointerXs, y \in PointerYs : pointermove(<<x, y>>)
  \/ pointerup
  \/ \E r \in -1 .. MaxBrush : setBrushRadius(r)
  \/ take_commands

SpecInput == InputInit /\ [][InputNext]_vars

\* ---- strokes: pointer events of several strokes in a row --------------------
STROKE_EVENTS == 5

\* the pointer above and left of the canvas, and on its last pixel
StrokePointer == {<<-1, -1>>, <<CanvasW - 1, CanvasH - 1>>}

StrokeHandled(h, st) ==
  /\ input' = h
  /\ hist' = [hist EXCEPT
                !.queued = @ \o SubSeq(h.commands, Len(input.commands) + 1, Len(h.commands)),
                !.events = @ + 1,
                !.stroke = st]
  /\ UNCHANGED <<width, height, chunk_size, cells, render, chunks, generation,
                 rng, ghosts, next_group, paints, tickLog>>
  /\ UNCHANGED <<refs, frames, initPc, resetThen>>
  /\ UNCHANGED pageVars

StrokeDown(e) ==
  /\ refs.input
  /\ hist.events < STROKE_EVENTS
  /\ StrokeHandled(handlePointerDown(input, e),
                   [hist.stroke EXCEPT !.open = TRUE, !.down = screenToGrid(e),
                                       !.moves = 0, !.at = screenToGrid(e),
                                       !.prev = hist.stroke.at,
                                       !.strokes = @ + 1])

StrokeMove(e) ==
  /\ refs.input
  /\ hist.events < STROKE_EVENTS
  /\ StrokeHandled(handlePointerMove(input, e),
                   IF hist.stroke.open
                   THEN [hist.stroke EXCEPT !.moves = @ + 1, !.at = screenToGrid(e)]
                   ELSE [hist.stroke EXCEPT !.idle = @ + 1])

StrokeUp ==
  /\ refs.input
  /\ hist.events < STROKE_EVENTS
  /\ StrokeHandled(handlePointerUp(input), [hist.stroke EXCEPT !.open = FALSE])

StrokeNext ==
  \/ \E e \in StrokePointer : StrokeDown(e)
  \/ \E e \in StrokePointer : StrokeMove(e)
  \/ StrokeUp
  \/ \E r \in 0 .. 1 : setBrushRadius(r)
  \/ take_commands

SpecStroke == InputInit /\ [][StrokeNext]_vars

\* ---- the pure functions of input.ts, called on their own ------------------
\* the widest brush the page offers
BRUSH_MAX == 10
\* the largest grid coordinate of the page
COORD_MAX == 255
MaxProbeGrid == 12
MaxCoord == 3

ProbeSizes == {1, 2, 5, MaxProbeGrid}
ProbeCoords == (0 .. MaxCoord) \cup {COORD_MAX - 1, COORD_MAX}

\* one call per run
ProbeStep(fn, args, out) ==
  /\ probe.fn = "none"
  /\ probe' = [fn |-> fn, args |-> args, out |-> out]
  /\ UNCHANGED <<width, height, chunk_size, cells, render, chunks, generation,
                 rng, ghosts, next_group, paints, tickLog>>
  /\ UNCHANGED <<refs, frames, initPc, resetThen, input, hist, status, errorMsg,
                 cancelled, heap, loader>>

call_brushCells(cx, cy, radius, gridWidth, gridHeight) ==
  ProbeStep("brushCells", <<cx, cy, radius, gridWidth, gridHeight>>,
            brushCells(cx, cy, radius, gridWidth, gridHeight))

call_interpolateLine(x0, y0, x1, y1) ==
  ProbeStep("interpolateLine", <<x0, y0, x1, y1>>, interpolateLine(x0, y0, x1, y1))

BrushNext ==
  \E gridWidth \in ProbeSizes, gridHeight \in ProbeSizes :
    \E cx \in 0 .. (gridWidth - 1), cy \in 0 .. (gridHeight - 1), radius \in 0 .. BRUSH_MAX :
      call_brushCells(cx, cy, radius, gridWidth, gridHeight)

SpecBrush == Init /\ [][BrushNext]_vars

LineNext ==
  \E x0 \in ProbeCoords, y0 \in ProbeCoords, x1 \in ProbeCoords, y1 \in ProbeCoords :
    call_interpolateLine(x0, y0, x1, y1)

SpecLine == Init /\ [][LineNext]_vars

\* ---- the host loop of SimulationCanvas -----------------------------------
MaxFrames == 2
MaxResets == 1
MaxHostEvents == 2

\* the page while a task of the host runs: the refs, the callbacks the browser
\* holds, the InputHandler, the history, and the Universe behind universeRef
Host == [refs |-> refs, frames |-> frames, input |-> input, hist |-> hist,
         u |-> Universe, generation |-> generation, paints |-> paints,
         next_group |-> next_group, heap |-> heap, status |-> status,
         errorMsg |-> errorMsg, thrown |-> FALSE]

Did(s, what) == [s EXCEPT !.hist.frameLog = Append(@, what)]

\* a method is called on the object `id`; calling it after free() is recorded
CallOn(hp, id, method) ==
  IF id \in hp.freed THEN [hp EXCEPT !.misused = @ \cup {method}] ELSE hp

\* a method is called on the Universe the frame read from universeRef
Called(s, method) == [s EXCEPT !.heap = CallOn(@, s.heap.ref, method)]

\* new wasm.Universe(w, h): the next object
Constructed(hp) == [hp EXCEPT !.made = @ + 1]

\* universe.free()
Freed(hp, id) == [CallOn(hp, id, "free") EXCEPT !.freed = @ \cup {id}]

\* requestAnimationFrame(cb): the browser holds the callback under a new id
requestFrame(s) ==
  LET id == s.hist.requests + 1
  IN  [Did(s, "raf") EXCEPT !.frames = @ \cup {id}, !.refs.raf = id,
                            !.hist.requests = id]

RECURSIVE apply_commands(_, _, _)
apply_commands(s, cmds, k) ==
  IF k > Len(cmds) THEN s
  ELSE apply_commands(
         [Called(Did(s, "set_cell"), "set_cell") EXCEPT
            !.u = paint_cell(@, cmds[k].x, cmds[k].y, cmds[k].species),
            !.paints = @ + 1],
         cmds, k + 1)

host_tick(s) ==
  [Called(Did(s, "tick"), "tick") EXCEPT
     !.u = tick_universe(@, s.generation + 1),
     !.generation = @ + 1]

\* the view is read through the pointer when render() is called
host_render(s) ==
  [Called(Did(Did(s, "ptr"), "render"), "species_ptr") EXCEPT
     !.hist.uploaded = s.u.render,
     !.hist.rendered = @ + 1]

\* variant: the view is uploaded before the Universe is ticked
frameLoop_render_first(s) ==
  IF ~(s.refs.universe /\ s.refs.renderer /\ s.refs.input /\ s.refs.memory)
  THEN s
  ELSE LET f == flush(s.input)
           flushed == [Did(s, "flush") EXCEPT !.input = f.handler,
                                              !.hist.handed = @ \o f.out]
           painted == apply_commands(flushed, f.out, 1)
           shown == host_render(painted)
       IN  requestFrame(IF ~s.refs.paused THEN host_tick(shown) ELSE shown)

\* variant: the frame ticks whether paused or not
frameLoop_always_tick(s) ==
  IF ~(s.refs.universe /\ s.refs.renderer /\ s.refs.input /\ s.refs.memory)
  THEN s
  ELSE LET f == flush(s.input)
           flushed == [Did(s, "flush") EXCEPT !.input = f.handler,
                                              !.hist.handed = @ \o f.out]
           painted == apply_commands(flushed, f.out, 1)
       IN  requestFrame(host_render(host_tick(painted)))

\* one run of the frame callback
frameLoop(s) ==
  IF ~(s.refs.universe /\ s.refs.renderer /\ s.refs.input /\ s.refs.memory)
  THEN s
  ELSE LET f == flush(s.input)
           flushed == [Did(s, "flush") EXCEPT !.input = f.handler,
                                              !.hist.handed = @ \o f.out]
           painted == apply_commands(flushed, f.out, 1)
           ticked == IF ~s.refs.paused THEN host_tick(painted) ELSE painted
       IN  requestFrame(host_render(ticked))

RECURSIVE run_callbacks(_, _, _)
run_callbacks(s, ids, k) ==
  IF k > Len(ids) THEN s
  ELSE run_callbacks(frameLoop(s), ids, k + 1)

HostCommit(s) ==
  /\ refs' = s.refs
  /\ frames' = s.frames
  /\ input' = s.input
  /\ hist' = s.hist
  /\ heap' = s.heap
  /\ status' = s.status
  /\ errorMsg' = s.errorMsg
  /\ generation' = s.generation
  /\ paints' = s.paints
  /\ next_group' = s.next_group
  /\ Commit(s.u)

\* the browser runs every callback requested for this animation frame
animation_frame ==
  /\ frames # {}
  /\ hist.rendered < MaxFrames
  /\ HostCommit(run_callbacks([Host EXCEPT !.frames = {}, !.hist.frameLog = <<>>],
                              SetToSeq(frames), 1))
  /\ UNCHANGED <<width, height, chunk_size, initPc, resetThen, cancelled, loader, probe>>

\* new wasm.Universe(w, h): an empty grid at generation 0
NewUniverse ==
  /\ cells' = [i \in DOMAIN cells |-> EMPTY_CELL]
  /\ render' = [i \in DOMAIN render |-> 0]
  /\ chunks' = [c \in DOMAIN chunks |-> CLEAN_CHUNK]
  /\ generation' = 0
  /\ rng' \in 1 .. MaxSeed
  /\ ghosts' = [h0 \in {} |-> GhostEntry(0, 0)]
  /\ next_group' = 0
  /\ tickLog' = <<>>
  /\ UNCHANGED <<width, height, chunk_size, paints>>

UniverseKept ==
  UNCHANGED <<width, height, chunk_size, cells, render, chunks, generation, rng,
              ghosts, next_group, paints, tickLog>>

\* the text every "no WebGPU" message starts with
WEBGPU_REQUIRED == "WebGPU is required"

\* what an await of init can reject with
Errors == {"Error"}

\* variant: without navigator.gpu, init returns and reports nothing
init_mount_silent ==
  /\ initPc = "mount"
  /\ \E gpu \in BOOLEAN :
       IF gpu THEN initPc' = "loadSimulation" ELSE initPc' = "no-gpu"
  /\ UniverseKept
  /\ UNCHANGED <<refs, frames, resetThen, input, hist, status, errorMsg,
                 cancelled, heap, loader, probe>>

\* init(): the navigator.gpu test, then up to the first await
init_mount ==
  /\ initPc = "mount"
  /\ \E gpu \in BOOLEAN :
       IF gpu THEN initPc' = "loadSimulation" /\ UNCHANGED <<status, errorMsg>>
       ELSE /\ initPc' = "no-gpu"
            /\ errorMsg' = <<WEBGPU_REQUIRED, ". Use Chrome 113+ or Edge 113+.">>
            /\ status' = "error"
  /\ UniverseKept
  /\ UNCHANGED <<refs, frames, resetThen, input, hist, cancelled, heap, loader, probe>>

\* init(): from loadSimulation() resolving to the second await
init_loaded ==
  /\ initPc = "loadSimulation"
  /\ IF cancelled
     THEN /\ initPc' = "returned"
          /\ UniverseKept
          /\ UNCHANGED <<refs, heap>>
     ELSE /\ initPc' = "Renderer.create"
          /\ refs' = [refs EXCEPT !.universe = TRUE, !.memory = TRUE]
          /\ heap' = [Constructed(heap) EXCEPT !.ref = heap.made + 1,
                                               !.local = heap.made + 1]
          /\ NewUniverse
  /\ UNCHANGED <<frames, resetThen, input, hist, status, errorMsg, cancelled, loader, probe>>

\* init(): from Renderer.create() resolving to the end
init_created ==
  /\ initPc = "Renderer.create"
  /\ IF cancelled
     THEN /\ initPc' = "returned"
          /\ heap' = Freed(heap, heap.local)
          /\ UNCHANGED <<refs, frames, input, hist, status, errorMsg>>
     ELSE /\ initPc' = "running"
          /\ status' = "running"
          /\ UNCHANGED errorMsg
          /\ LET s == requestFrame([Host EXCEPT !.refs.renderer = TRUE,
                                                !.refs.input = TRUE,
                                                !.input = NewInputHandler])
             IN  /\ refs' = s.refs
                 /\ frames' = s.frames
                 /\ input' = s.input
                 /\ hist' = s.hist
          /\ UNCHANGED heap
  /\ UniverseKept
  /\ UNCHANGED <<resetThen, cancelled, loader, probe>>

\* init(): an await rejects and the catch block reports the error
init_failed ==
  /\ initPc \in {"loadSimulation", "Renderer.create"}
  /\ initPc' = "error"
  /\ \E err \in Errors :
       IF cancelled THEN UNCHANGED <<status, errorMsg>>
       ELSE errorMsg' = <<"Init failed: ", err>> /\ status' = "error"
  /\ UniverseKept
  /\ UNCHANGED <<refs, frames, resetThen, input, hist, cancelled, heap, loader, probe>>

\* variant: Reset frees the Universe and leaves it in universeRef
handleReset_keep_ref ==
  /\ ~cancelled
  /\ refs.universe
  /\ hist.resets < MaxResets
  /\ frames' = IF refs.raf # 0 THEN frames \ {refs.raf} ELSE frames
  /\ refs' = refs
  /\ heap' = Freed(CallOn(CallOn(heap, heap.ref, "width"), heap.ref, "height"),
                   heap.ref)
  /\ resetThen' = resetThen + 1
  /\ hist' = [hist EXCEPT !.resets = @ + 1]
  /\ UniverseKept
  /\ UNCHANGED <<initPc, input, status, errorMsg, cancelled, loader, probe>>

\* Reset button or 'R' key (both gone once the page is unmounted), up to
\* loadSimulation().then
handleReset ==
  /\ ~cancelled
  /\ refs.universe
  /\ hist.resets < MaxResets
  /\ frames' = IF refs.raf # 0 THEN frames \ {refs.raf} ELSE frames
  /\ refs' = [refs EXCEPT !.universe = FALSE]
  /\ heap' = [Freed(CallOn(CallOn(heap, heap.ref, "width"), heap.ref, "height"),
                    heap.ref)
              EXCEPT !.ref = 0]
  /\ resetThen' = resetThen + 1
  /\ hist' = [hist EXCEPT !.resets = @ + 1]
  /\ UniverseKept
  /\ UNCHANGED <<initPc, input, status, errorMsg, cancelled, loader, probe>>

\* the continuation of Reset: a new Universe and a restart of the frame loop
reset_then ==
  /\ resetThen > 0
  /\ resetThen' = resetThen - 1
  /\ LET s == requestFrame([Host EXCEPT !.refs.universe = TRUE, !.refs.memory = TRUE])
     IN  /\ refs' = s.refs
         /\ frames' = s.frames
         /\ hist' = s.hist
  /\ heap' = [Constructed(heap) EXCEPT !.ref = heap.made + 1]
  /\ NewUniverse
  /\ UNCHANGED <<initPc, input, status, errorMsg, cancelled, loader, probe>>

\* pause button or space key
togglePause ==
  /\ ~cancelled
  /\ refs' = [refs EXCEPT !.paused = ~@]
  /\ UniverseKept
  /\ UNCHANGED <<frames, initPc, resetThen, input, hist>>
  /\ UNCHANGED pageVars

\* the cleanup of the mount effect, when the page is unmounted
unmount ==
  /\ initPc # "mount"
  /\ ~cancelled
  /\ cancelled' = TRUE
  /\ frames' = IF refs.raf # 0 THEN frames \ {refs.raf} ELSE frames
  /\ refs' = [refs EXCEPT !.renderer = FALSE, !.input = FALSE,
                          !.universe = FALSE, !.memory = FALSE]
  /\ heap' = IF refs.universe THEN [Freed(heap, heap.ref) EXCEPT !.ref = 0]
             ELSE heap
  /\ UniverseKept
  /\ UNCHANGED <<initPc, resetThen, input, hist, status, errorMsg, loader, probe>>

\* ---- the later SimulationCanvas: runFrame with a crash handler ------------
\* rows of the ghost stamp, top to bottom (1: '*', 0: '.')
GHOST_BODY ==
  << <<0,0,0,0,1,1,1,1,1,1,1,0,0,0,0>>,
     <<0,0,1,1,1,1,1,1,1,1,1,1,1,0,0>>,
     <<0,1,1,1,1,1,1,1,1,1,1,1,1,1,0>>,
     <<1,1,1,1,1,1,1,1,1,1,1,1,1,1,1>>,
     <<1,1,1,1,1,1,1,1,1,1,1,1,1,1,1>>,
     <<1,1,1,1,1,1,1,1,1,1,1,1,1,1,1>>,
     <<1,1,1,0,0,1,1,1,1,0,0,1,1,1,1>>,
     <<1,1,1,0,0,1,1,1,1,0,0,1,1,1,1>>,
     <<1,1,1,1,1,1,1,1,1,1,1,1,1,1,1>>,
     <<1,1,1,1,1,1,1,1,1,1,1,1,1,1,1>>,
     <<1,1,1,1,1,1,1,1,1,1,1,1,1,1,1>>,
     <<1,1,1,1,1,1,1,1,1,1,1,1,1,1,1>>,
     <<1,1,1,1,1,1,1,1,1,1,1,1,1,1,1>>,
     <<1,1,1,1,1,1,1,1,1,1,1,1,1,1,1>>,
     <<0,1,1,0,0,1,1,1,0,0,1,1,0,0,1>>,
     <<0,0,1,0,0,0,1,0,0,0,1,0,0,0,0>> >>

GHOST_SPECIES == 5

\* the stamp's cells inside the grid, row by row, as draw commands
ghostStamp(cx, cy, bodySpecies, gridWidth, gridHeight) ==
  LET h == Len(GHOST_BODY)
      w == Len(GHOST_BODY[1])
      ox == cx - (w \div 2)
      oy == cy - (h \div 2)
      Placed(k) ==
        LET row == k \div w
            col == k % w
        IN  /\ GHOST_BODY[row + 1][col + 1] # 0
            /\ ~(ox + col < 0 \/ ox + col >= gridWidth
                   \/ oy + row < 0 \/ oy + row >= gridHeight)
      ks == SelectSeq([k \in 1 .. (h * w) |-> k - 1], Placed)
  IN  [i \in 1 .. Len(ks) |->
         DrawCommand(ox + (ks[i] % w), oy + (ks[i] \div w), bodySpecies)]

\* the calls of a frame that can throw; "none": nothing throws in this frame
Faults == {"none", "alloc_ghost_group", "set_ghost", "set_cell", "tick",
           "cell_render_ptr", "render"}

\* one call inside the try block: skipped once something has thrown; throws
\* itself if it is the call that fails in this frame; otherwise has its effect
Attempt(s, method, fault, done) ==
  IF s.thrown THEN s
  ELSE IF method = fault THEN [Did(s, method) EXCEPT !.thrown = TRUE]
  ELSE done

RECURSIVE set_ghosts(_, _, _, _, _)
set_ghosts(s, stampCmds, k, group, fault) ==
  IF k > Len(stampCmds) THEN s
  ELSE LET one == Attempt(s, "set_ghost", fault,
                          [Called(Did(s, "set_ghost"), "set_ghost") EXCEPT
                             !.u = paint_ghost(@, stampCmds[k].x, stampCmds[k].y, group),
                             !.paints = @ + 1])
       IN  \* each call returns before the next is made
           IF one.thrown \in BOOLEAN /\ one.u.rng \in Nat
           THEN set_ghosts(one, stampCmds, k + 1, group, fault)
           ELSE one

RECURSIVE run_commands(_, _, _, _)
run_commands(s, cmds, k, fault) ==
  IF k > Len(cmds) THEN s
  ELSE LET cmd == cmds[k]
           alloc == Attempt(s, "alloc_ghost_group", fault,
                            [Called(Did(s, "alloc_ghost_group"), "alloc_ghost_group")
                               EXCEPT !.next_group = @ + 1])
           one == IF cmd.species = GHOST_SPECIES
                  THEN set_ghosts(alloc, ghostStamp(cmd.x, cmd.y, GHOST_SPECIES,
                                                    width, height),
                                  1, s.next_group, fault)
                  ELSE Attempt(s, "set_cell", fault,
                               [Called(Did(s, "set_cell"), "set_cell") EXCEPT
                                  !.u = paint_cell(@, cmd.x, cmd.y, cmd.species),
                                  !.paints = @ + 1])
       IN  IF one.thrown \in BOOLEAN /\ one.u.rng \in Nat
           THEN run_commands(one, cmds, k + 1, fault)
           ELSE one

\* the try block of runFrame
try_frame(s, fault) ==
  LET f == flush(s.input)
      flushed == [Did(s, "flush") EXCEPT !.input = f.handler,
                                         !.hist.handed = @ \o f.out]
      painted == run_commands(flushed, f.out, 1, fault)
      ticked == IF ~s.refs.paused
                THEN Attempt(painted, "tick", fault, host_tick(painted))
                ELSE painted
      pointed == Attempt(ticked, "cell_render_ptr", fault,
                         Called(Did(ticked, "ptr"), "cell_render_ptr"))
  IN  Attempt(pointed, "render", fault,
              [Did(pointed, "render") EXCEPT !.hist.uploaded = pointed.u.render,
                                             !.hist.rendered = @ + 1])

\* variant: the catch block reports the crash and keeps the Universe reference
runFrame_keep_universe(s, fault) ==
  IF ~(s.refs.universe /\ s.refs.renderer /\ s.refs.input /\ s.refs.memory)
  THEN s
  ELSE LET tried == try_frame(s, fault)
       IN  IF tried.thrown
           THEN [tried EXCEPT !.thrown = FALSE,
                              !.errorMsg = <<fault>>,
                              !.status = "crashed"]
           ELSE requestFrame(tried)

\* one run of the frame callback; `fault` is the call that throws in it, if
\* the frame gets to make that call
runFrame(s, fault) ==
  IF ~(s.refs.universe /\ s.refs.renderer /\ s.refs.input /\ s.refs.memory)
  THEN s
  ELSE LET tried == try_frame(s, fault)
       IN  IF tried.thrown
           THEN [tried EXCEPT !.thrown = FALSE,
                              !.refs.universe = FALSE,
                              !.heap.ref = 0,
                              !.errorMsg = <<fault>>,
                              !.status = "crashed"]
           ELSE requestFrame(tried)

RECURSIVE run_callbacks_v3(_, _, _, _)
run_callbacks_v3(s, ids, k, fault) ==
  IF k > Len(ids) THEN s
  ELSE run_callbacks_v3(runFrame(s, fault), ids, k + 1, fault)

animation_frame_v3 ==
  /\ frames # {}
  /\ hist.rendered < MaxFrames
  /\ \E fault \in Faults :
       HostCommit(run_callbacks_v3([Host EXCEPT !.frames = {}, !.hist.frameLog = <<>>],
                                   SetToSeq(frames), 1, fault))
  /\ UNCHANGED <<width, height, chunk_size, initPc, resetThen, cancelled, loader, probe>>

\* init(): from loadSimulation() resolving to the second await; the Universe
\* is held by the local variable only
init_loaded_v3 ==
  /\ initPc = "loadSimulation"
  /\ IF cancelled
     THEN /\ initPc' = "returned"
          /\ UniverseKept
          /\ UNCHANGED heap
     ELSE /\ initPc' = "Renderer.create"
          /\ heap' = [Constructed(heap) EXCEPT !.local = heap.made + 1]
          /\ NewUniverse
  /\ UNCHANGED <<refs, frames, resetThen, input, hist, status, errorMsg,
                 cancelled, loader, probe>>

\* init(): from Renderer.create() resolving to the end
init_created_v3 ==
  /\ initPc = "Renderer.create"
  /\ IF cancelled
     THEN /\ initPc' = "returned"
          /\ heap' = Freed(heap, heap.local)
          /\ UNCHANGED <<refs, frames, input, hist, status, errorMsg>>
     ELSE /\ initPc' = "running"
          /\ status' = "running"
          /\ heap' = [heap EXCEPT !.ref = heap.local]
          /\ LET s == requestFrame([Host EXCEPT !.refs.universe = TRUE,
                                                !.refs.memory = TRUE,
                                                !.refs.renderer = TRUE,
                                                !.refs.input = TRUE,
                                                !.input = NewInputHandler])
             IN  /\ refs' = s.refs
                 /\ frames' = s.frames
                 /\ input' = s.input
                 /\ hist' = s.hist
          /\ UNCHANGED errorMsg
  /\ UniverseKept
  /\ UNCHANGED <<resetThen, cancelled, loader, probe>>

handleReset_v3 ==
  /\ ~cancelled
  /\ refs.universe
  /\ hist.resets < MaxResets
  /\ frames' = IF refs.raf # 0 THEN frames \ {refs.raf} ELSE frames
  /\ refs' = [refs EXCEPT !.universe = FALSE, !.raf = 0]
  /\ heap' = [Freed(CallOn(CallOn(heap, heap.ref, "width"), heap.ref, "height"),
                    heap.ref)
              EXCEPT !.ref = 0]
  /\ resetThen' = resetThen + 1
  /\ hist' = [hist EXCEPT !.resets = @ + 1]
  /\ UniverseKept
  /\ UNCHANGED <<initPc, input, status, errorMsg, cancelled, loader, probe>>

unmount_v3 ==
  /\ initPc # "mount"
  /\ ~cancelled
  /\ cancelled' = TRUE
  /\ frames' = IF refs.raf # 0 THEN frames \ {refs.raf} ELSE frames
  /\ refs' = [refs EXCEPT !.renderer = FALSE, !.input = FALSE,
                          !.universe = FALSE, !.memory = FALSE, !.raf = 0]
  /\ heap' = IF refs.universe THEN [Freed(heap, heap.ref) EXCEPT !.ref = 0]
             ELSE heap
  /\ UniverseKept
  /\ UNCHANGED <<initPc, resetThen, input, hist, status, errorMsg, loader, probe>>

MaxClicks == 1

HostNext_v3 ==
  \/ init_mount
  \/ init_loaded_v3
  \/ init_created_v3
  \/ init_failed
  \/ unmount_v3
  \/ handleReset_v3
  \/ reset_then
  \/ togglePause
  \/ animation_frame_v3
  \/ \E e \in {<<CanvasW \div 2, CanvasH \div 2>>} :
       hist.events < MaxClicks /\ pointerdown(e)
  \/ \E sp \in {SAND, GHOST_SPECIES} : setSpecies(sp)
  \/ \E r \in {0, 2} : setBrushRadius(r)

SpecHost_v3 == Init /\ [][HostNext_v3]_vars

HostPointer == {<<-1, -1>>, <<CanvasW \div 2, CanvasH>>}

HostNext ==
  \/ init_mount
  \/ init_loaded
  \/ init_created
  \/ init_failed
  \/ unmount
  \/ handleReset
  \/ reset_then
  \/ togglePause
  \/ animation_frame
  \/ \E e \in HostPointer : hist.events < MaxHostEvents /\ pointerdown(e)
  \/ \E e \in HostPointer : hist.events < MaxHostEvents /\ pointermove(e)
  \/ hist.events < MaxHostEvents /\ pointerup
  \/ \E sp \in {SAND, WALL} : setSpecies(sp)
  \/ \E r \in {0, 2} : setBrushRadius(r)

SpecHost == Init /\ [][HostNext]_vars

\* ---- loadSimulation --------------------------------------------------------
MaxCalls == 4

\* the callers of loadSimulation in the application
Callers == {"init", "handleReset", "WasmTest"}

Returned(who, via, value) == [who |-> who, via |-> via, value |-> value]

\* variant: no deduplication of concurrent calls
loadSimulation_no_dedup(l, who) ==
  IF l.wasmInstance # 0
  THEN [l EXCEPT !.calls = Append(@, Returned(who, "value", l.wasmInstance))]
  ELSE [l EXCEPT !.wasmLoading = [state |-> "pending", value |-> 0],
                 !.imports = @ + 1,
                 !.pc = "import",
                 !.calls = Append(@, Returned(who, "promise", 0))]

\* one call, up to its return: the instance, the pending promise, or a new
\* promise whose body has run up to `await importFn(...)`
loadSimulation(l, who) ==
  IF l.wasmInstance # 0
  THEN [l EXCEPT !.calls = Append(@, Returned(who, "value", l.wasmInstance))]
  ELSE IF l.wasmLoading.state # "null"
  THEN [l EXCEPT !.calls = Append(@, Returned(who, "promise", 0))]
  ELSE [l EXCEPT !.wasmLoading = [state |-> "pending", value |-> 0],
                 !.imports = @ + 1,
                 !.pc = "import",
                 !.calls = Append(@, Returned(who, "promise", 0))]

LoaderStep(l) ==
  /\ loader' = l
  /\ UNCHANGED <<width, height, chunk_size, cells, render, chunks, generation,
                 rng, ghosts, next_group, paints, tickLog>>
  /\ UNCHANGED <<refs, frames, initPc, resetThen, input, hist, status, errorMsg,
                 cancelled, heap, probe>>

load_call(who) ==
  /\ Len(loader.calls) < MaxCalls
  /\ LoaderStep(loadSimulation(loader, who))

\* the import resolves: init('/simulation_bg.wasm') is called and awaited
import_resolved ==
  /\ loader.pc = "import"
  /\ LoaderStep([loader EXCEPT !.inits = @ + 1, !.pc = "init"])

\* the WASM init resolves: wasmInstance is built and the promise resolves to it
init_resolved ==
  /\ loader.pc = "init"
  /\ LoaderStep([loader EXCEPT !.built = @ + 1,
                               !.wasmInstance = loader.built + 1,
                               !.wasmLoading = [state |-> "resolved",
                                                value |-> loader.built + 1],
                               !.pc = "done"])

\* the import or the WASM init rejects: so does the promise
load_rejected ==
  /\ loader.pc \in {"import", "init"}
  /\ LoaderStep([loader EXCEPT !.wasmLoading = [state |-> "rejected", value |-> 0],
                               !.pc = "failed"])

LoadNext ==
  \/ \E who \in Callers : load_call(who)
  \/ import_resolved
  \/ init_resolved
  \/ load_rejected

SpecLoad == Init /\ [][LoadNext]_vars

\* what a call has resolved to so far (0: not resolved)
Yield(l, c) ==
  IF c.via = "value" THEN c.value
  ELSE IF l.wasmLoading.state = "resolved" THEN l.wasmLoading.value
  ELSE 0

\* ==== properties ==========================================================
LogIdx == 1 .. Len(tickLog)
Ticked == generation' # generation
SamePos(a, b) == a.x = b.x /\ a.y = b.y
Near(ax, ay, bx, by) == Abs(ax - bx) <= 1 /\ Abs(ay - by) <= 1
SpeciesAt(x, y) == cells[Idx(x, y)].species
CountOf(sp) == Cardinality({i \in DOMAIN cells : cells[i].species = sp})
InRect(c, x, y) == c.dirty /\ c.minX <= x /\ x <= c.maxX /\ c.minY <= y /\ y <= c.maxY

\* ---- C1 ------------------------------------------------------------------
WallSet == {i \in DOMAIN cells : cells[i].species = WALL}

\* C1: a tick leaves the set of positions holding Wall unchanged, and every
\* Wall cell keeps its contents: no rule and no ghost translation moves,
\* overwrites or creates a Wall.
C1_WallConserved ==
  [][Ticked => (WallSet' = WallSet /\ \A i \in WallSet : cells'[i] = cells[i])]_vars

\* a rule ran in the last tick on a particle next to a Wall cell
C1_Witness ==
  /\ generation > 0
  /\ \E j \in LogIdx :
       /\ tickLog[j].k = "rule"
       /\ \E i \in WallSet : Near(XOf(i), YOf(i), tickLog[j].x, tickLog[j].y)
                             /\ i # Idx(tickLog[j].x, tickLog[j].y)

LaterWriteAt(i, j) ==
  /\ i < j
  /\ tickLog[i].k = "write"
  /\ tickLog[j].k = "write"
  /\ SamePos(tickLog[i], tickLog[j])

\* C3 as stated: each grid position is written at most once per tick.
C3_PositionWrittenOnce ==
  \A i \in LogIdx, j \in LogIdx : ~LaterWriteAt(i, j)

\* C3 amended: one rule invocation (or one group translation) writes a
\* position at most once; a position is written again in the same tick only
\* by a later invocation.
C3_OncePerInvocation ==
  \A i \in LogIdx, j \in LogIdx :
    LaterWriteAt(i, j) =>
      \E m \in (i + 1) .. (j - 1) : tickLog[m].k \in {"rule", "group"}

\* a position was written twice in the last tick
C3_Witness ==
  \E i \in LogIdx, j \in LogIdx : LaterWriteAt(i, j)

\* ---- C4 ------------------------------------------------------------------
Changed == {i \in DOMAIN cells : cells'[i] # cells[i]}
InPreRect(x, y) == InRect(chunks[ChunkOf(x, y)], x, y)

\* C4 as stated: every cell that changed during a tick lies inside the
\* dirty rectangle its chunk had before the tick.
C4_ChangedInPreRect ==
  [][Ticked => \A i \in Changed : InPreRect(XOf(i), YOf(i))]_vars

\* the chunk of the cell of rule event j was written earlier in the tick
GrownBefore(log, j) ==
  \E i \in 1 .. (j - 1) :
    /\ log[i].k = "write"
    /\ InBounds(log[i].x, log[i].y)
    /\ ChunkOf(log[i].x, log[i].y) = ChunkOf(log[j].x, log[j].y)

\* C4 amended: every changed cell was written through the neighbourhood API
\* by a rule or group translation acting within one cell of it, and every
\* cell on which a rule was invoked lies inside its chunk's pre-tick dirty
\* rectangle or in a chunk that was written earlier in the same tick.
C4_ScanInPreRect ==
  [][Ticked =>
       /\ \A i \in Changed :
            \E j \in 1 .. Len(tickLog') :
              /\ tickLog'[j].k = "write"
              /\ Idx(tickLog'[j].x, tickLog'[j].y) = i
              /\ InBounds(tickLog'[j].x, tickLog'[j].y)
              /\ Near(tickLog'[j].x, tickLog'[j].y, tickLog'[j].fx, tickLog'[j].fy)
       /\ \A j \in 1 .. Len(tickLog') :
            tickLog'[j].k = "rule" =>
              \/ InPreRect(tickLog'[j].x, tickLog'[j].y)
              \/ GrownBefore(tickLog', j)]_vars

\* after one paint and one tick the particle has been moved by its rule to a
\* cell other than the painted one, the only cell of the pre-tick rectangle
C4_Witness ==
  /\ generation = 1
  /\ paints = 1
  /\ \E i \in LogIdx, j \in LogIdx :
       /\ tickLog[i].k = "rule"
       /\ tickLog[j].k = "write"
       /\ ~SamePos(tickLog[i], tickLog[j])
       /\ SpeciesAt(tickLog[j].x, tickLog[j].y) # EMPTY

\* ---- C5 ------------------------------------------------------------------
ScannedAfter(j, c) ==
  \E m \in (j + 1) .. Len(tickLog) : tickLog[m].k = "scan" /\ tickLog[m].x = c

\* C5: every cell written (by a rule, a group translation or a paint) since
\* its chunk was last snapshotted and cleared lies inside that chunk's dirty
\* rectangle, and the chunk is flagged dirty.
C5_DirtyEnclosesWrites ==
  \A j \in LogIdx :
    (tickLog[j].k \in {"write", "paint"} /\ InBounds(tickLog[j].x, tickLog[j].y)
       /\ ~ScannedAfter(j, ChunkOf(tickLog[j].x, tickLog[j].y)))
      => InRect(chunks[ChunkOf(tickLog[j].x, tickLog[j].y)], tickLog[j].x, tickLog[j].y)

\* a rule wrote into a chunk other than its own, and another write of the
\* same tick landed in a chunk after that chunk had been snapshotted
C5_Witness ==
  /\ \E j \in LogIdx :
       /\ tickLog[j].k = "write"
       /\ ChunkOf(tickLog[j].x, tickLog[j].y) # ChunkOf(tickLog[j].fx, tickLog[j].fy)
       /\ ~ScannedAfter(j, ChunkOf(tickLog[j].x, tickLog[j].y))
  /\ \E i \in LogIdx, j \in LogIdx :
       /\ i < j
       /\ tickLog[i].k = "scan"
       /\ tickLog[j].k = "write"
       /\ tickLog[i].x = ChunkOf(tickLog[j].x, tickLog[j].y)

\* ---- C6 ------------------------------------------------------------------
\* C6: no write of a tick lands outside the grid.
C6_WritesInGrid ==
  \A j \in LogIdx : tickLog[j].k = "write" => InBounds(tickLog[j].x, tickLog[j].y)

\* a rule ran on a particle in a corner of the grid that faces the edge it
\* would move through: Sand or Water on the bottom row, Fire or Smoke on top
C6_Witness ==
  \E j \in LogIdx :
    /\ tickLog[j].k = "rule"
    /\ tickLog[j].x \in {0, width - 1}
    /\ \/ /\ tickLog[j].y = height - 1
          /\ SpeciesAt(tickLog[j].x, tickLog[j].y) \in {SAND, WATER}
       \/ /\ tickLog[j].y = 0
          /\ SpeciesAt(tickLog[j].x, tickLog[j].y) \in {FIRE, SMOKE}

\* ---- C8 ------------------------------------------------------------------
\* C8: the render view is 2*W*H bytes long and holds, for every cell (x,y),
\* its species at offset 2*(y*W+x) and its rb at the next offset, after
\* every paint and every tick.
C8_RenderCoherent ==
  /\ DOMAIN render = 0 .. (2 * width * height - 1)
  /\ \A x \in 0 .. (width - 1), y \in 0 .. (height - 1) :
       /\ render[2 * (y * width + x)] = cells[Idx(x, y)].species
       /\ render[2 * (y * width + x) + 1] = cells[Idx(x, y)].rb

\* the last operation was a paint of a Fire or Smoke cell (no tick since),
\* and the view already shows its species and lifetime
C8_Witness ==
  /\ Len(tickLog) > 0
  /\ LET e == tickLog[Len(tickLog)]
     IN  /\ e.k = "paint"
         /\ SpeciesAt(e.x, e.y) \in {FIRE, SMOKE}
         /\ render[2 * Idx(e.x, e.y)] = SpeciesAt(e.x, e.y)
         /\ render[2 * Idx(e.x, e.y) + 1] >= FIRE_LIFE_MIN

\* ---- C9 ------------------------------------------------------------------
EmptyCount == CountOf(EMPTY)

\* C9: a tick from a state holding no Fire and no Smoke does not lower the
\* number of Empty cells.
C9_EmptyMonotone ==
  [][(Ticked /\ CountOf(FIRE) = 0 /\ CountOf(SMOKE) = 0) => EmptyCount' >= EmptyCount]_vars

\* every paint so far put down a particle that is still there, none of them
\* Fire or Smoke, and the last tick moved one of them
C9_Witness ==
  /\ generation > 0
  /\ CountOf(FIRE) = 0
  /\ CountOf(SMOKE) = 0
  /\ paints > 0
  /\ EmptyCount = width * height - paints
  /\ \E j \in LogIdx : tickLog[j].k = "write" /\ SpeciesAt(tickLog[j].x, tickLog[j].y) # EMPTY

\* ---- C10 -----------------------------------------------------------------
SandCells == {i \in DOMAIN cells : cells[i].species = SAND}
LoneGrainAtRow(r) ==
  /\ Cardinality(SandCells) = 1
  /\ \A i \in SandCells : YOf(i) = r
  /\ \A i \in DOMAIN cells : i \notin SandCells => cells[i].species = EMPTY

\* C10: a lone Sand grain painted on the top row of an empty grid is, after
\* k ticks, in the same column on row min(k, H-1), every other cell being
\* Empty: it falls one row per tick, reaches the bottom row and stays there
\* (on the 8x8 grid, painted at (4,0), it is at (4,7) after 8 ticks).
C10_GrainFalls ==
  [][/\ paints' = 1 => LoneGrainAtRow(Min(generation, height - 1))'
     /\ Ticked => {XOf(i) : i \in SandCells}' = {XOf(i) : i \in SandCells}]_vars

\* the grain painted at (4,0) lies at (4,7) after the 8th tick
C10_Witness ==
  /\ width = 8
  /\ height = 8
  /\ generation = 8
  /\ SpeciesAt(4, 7) = SAND
  /\ Cardinality(SandCells) = 1

\* ---- C11 -----------------------------------------------------------------
\* C11: on the 8x8 grid with Water painted at (4,4) and Fire at (4,3), after
\* 2 ticks both cells hold Smoke and the grid holds no Fire and no Water,
\* whatever the random draws.
C11_FireExtinguished ==
  (paints = 2 /\ generation = 2) =>
    /\ SpeciesAt(4, 4) = SMOKE
    /\ SpeciesAt(4, 3) = SMOKE
    /\ CountOf(FIRE) = 0
    /\ CountOf(WATER) = 0

\* in scenario S4 the Water and the Fire never react: after any number of
\* ticks both are still on the grid
C11_NeverReacts ==
  paints = 2 => (CountOf(FIRE) = 1 /\ CountOf(WATER) = 1 /\ CountOf(SMOKE) = 0)

\* ---- C12 -----------------------------------------------------------------
FireCells == {i \in DOMAIN cells : cells[i].species = FIRE}
SmokeCells == {i \in DOMAIN cells : cells[i].species = SMOKE}

\* C12: a lone Fire cell at (2,2) with rb = 2 on the 4x4 grid is, after the
\* first tick, still the only Fire cell, on row 2 or row 1 and at most one
\* column away, with rb below 2; the second tick leaves no Fire and turns
\* that very cell into Smoke.
C12_FireDecays ==
  [][/\ (Ticked /\ generation = 0) =>
          /\ Cardinality(FireCells') = 1
          /\ \A i \in FireCells' :
               /\ YOf(i) \in {1, 2}
               /\ Abs(XOf(i) - 2) <= 1
               /\ (YOf(i) = 2 => XOf(i) = 2)
               /\ cells'[i].rb < 2
     /\ (Ticked /\ generation = 1) =>
          /\ FireCells' = {}
          /\ Cardinality(FireCells) = 1
          /\ SmokeCells' = FireCells]_vars

\* two ticks after the paint the grid holds one Smoke cell, on row 1, and no
\* Fire
C12_Witness ==
  /\ width = 4
  /\ generation = 2
  /\ paints = 1
  /\ FireCells = {}
  /\ Cardinality(SmokeCells) = 1
  /\ \A i \in SmokeCells : YOf(i) = 1 /\ cells[i].rb >= SMOKE_LIFE_MIN

\* ---- C13 -----------------------------------------------------------------
\* C13 as stated: after the 20th tick of scenario S2 every Sand cell lies in
\* rows 5..9 and columns 4..12.
C13_PyramidBox ==
  generation = S2_TICKS =>
    \A i \in SandCells : /\ 5 <= YOf(i) /\ YOf(i) <= 9
                         /\ 4 <= XOf(i) /\ XOf(i) <= 12

\* C13 amended: after the 20th tick every Sand cell lies in columns 4..12
\* and no lower than row 9; the Sand outside the pouring column x = 8 (the
\* pile) lies in rows 5..9; the grains still falling in column 8 reach up to
\* row 1, where the grain painted before the last tick is; no grain is lost.
C13_PileBox ==
  generation = S2_TICKS =>
    /\ Cardinality(SandCells) = S2_TICKS
    /\ \A i \in SandCells :
         /\ 1 <= YOf(i) /\ YOf(i) <= S2_WALL_Y - 1
         /\ S2_WALL_X0 <= XOf(i) /\ XOf(i) <= S2_WALL_X1
         /\ (XOf(i) # 8 => 5 <= YOf(i))
    /\ SpeciesAt(8, S2_WALL_Y - 1) = SAND
    /\ SpeciesAt(8, 1) = SAND

\* after the 20th tick the pile has spread sideways on the Wall while grains
\* are still in flight above row 5
C13_Witness ==
  /\ generation = S2_TICKS
  /\ \E i \in SandCells : XOf(i) < 8 /\ YOf(i) = S2_WALL_Y - 1
  /\ \E i \in SandCells : XOf(i) > 8 /\ YOf(i) = S2_WALL_Y - 1
  /\ \E i \in SandCells : XOf(i) = 8 /\ YOf(i) < 5

\* ---- C14 -----------------------------------------------------------------
WaterCells == {i \in DOMAIN cells : cells[i].species = WATER}
TopWater(x) == CHOOSE y \in 0 .. (height - 1) :
                 /\ SpeciesAt(x, y) = WATER
                 /\ \A y2 \in 0 .. (y - 1) : SpeciesAt(x, y2) # WATER

InBasin(i) ==
  /\ S3_LEFT_X < XOf(i) /\ XOf(i) < S3_RIGHT_X
  /\ S3_TOP_Y <= YOf(i) /\ YOf(i) < S3_FLOOR_Y

FreshPaints ==
  {j \in LogIdx :
     /\ tickLog[j].k = "paint"
     /\ SpeciesAt(tickLog[j].x, tickLog[j].y) \in {SAND, WATER, FIRE, SMOKE}}

\* C15: a Sand, Water, Fire or Smoke cell painted between ticks is handled
\* by the next tick whatever the generation counter is: its rule is invoked
\* on it (or another particle's rule has written its cell before the scan
\* got there); it is never skipped as already stamped.
C15_PaintedIsProcessed ==
  [][Ticked =>
       \A j \in FreshPaints :
         \E m \in 1 .. Len(tickLog') :
           /\ tickLog'[m].k \in {"rule", "write"}
           /\ SamePos(tickLog'[m], tickLog[j])]_vars

\* ---- C20 -----------------------------------------------------------------
InGridRange(v, gridSize) == v \in Int /\ 0 <= v /\ v < gridSize

\* C20: every command in the InputHandler's buffer has integer coordinates
\* inside the grid, wherever the pointer was (outside the canvas on any side
\* included), whatever the brush radius and the stroke; and screenToGridCoord
\* yields an integer in [0, gridSize-1] for negative ratios, ratios in [0,1)
\* and ratios of 1 and more.
C20_CommandsInGrid ==
  /\ \A k \in 1 .. Len(input.commands) :
       /\ InGridRange(input.commands[k].x, width)
       /\ InGridRange(input.commands[k].y, height)
  /\ \A k \in 1 .. Len(hist.queued) :
       /\ InGridRange(hist.queued[k].x, width)
       /\ InGridRange(hist.queued[k].y, height)
  /\ \A num \in (-2 * CanvasW) .. (2 * CanvasW), size \in 1 .. width :
       InGridRange(screenToGridCoord(num, CanvasW, size), size)

\* a stroke was dragged from outside the canvas on one side to outside on
\* the opposite side, with a brush wider than one cell, and queued commands
\* on both edge columns
C20_Witness ==
  /\ input.isDrawing
  /\ input.brushRadius > 0
  /\ hist.events >= 2
  /\ \E k \in 1 .. Len(input.commands) : input.commands[k].x = 0
  /\ \E k \in 1 .. Len(input.commands) : input.commands[k].x = width - 1
  /\ input.lastPos = <<width - 1, height - 1>>

\* the entries of the frame log that belong to the same run of the frame
\* callback as entry i: every run starts with its flush
SameRun(log, i, j) ==
  /\ i < j
  /\ \A k \in (i + 1)..j : log[k] # "flush"

FrameOrdered(log) ==
  \A i \in 1..Len(log) :
    /\ log[i] = "tick" =>
         \A j \in 1..Len(log) : SameRun(log, i, j) => log[j] # "set_cell"
    /\ log[i] = "ptr" =>
         /\ i < Len(log) /\ log[i + 1] = "render"
         /\ \A j \in 1..Len(log) :
              SameRun(log, i, j) => log[j] \notin {"set_cell", "tick", "flush"}
    /\ log[i] = "render" => i > 1 /\ log[i - 1] = "ptr"

\* C16: in every executed frame the flushed paint commands are all applied
\* before tick(), the render pointer is taken after the drain and after the
\* tick of that frame, nothing mutates the Universe between taking the pointer
\* and the upload, and the uploaded view is the view of the Universe as the
\* frame leaves it.
C16_FrameOrder ==
  [][hist'.rendered > hist.rendered =>
       /\ FrameOrdered(hist'.frameLog)
       /\ hist'.uploaded = render']_vars

C16_Witness ==
  /\ hist.rendered > 0
  /\ \E i, j, k \in 1..Len(hist.frameLog) :
       /\ i < j /\ j < k
       /\ hist.frameLog[i] = "set_cell"
       /\ hist.frameLog[j] = "tick"
       /\ hist.frameLog[k] = "render"
  /\ \E i \in DOMAIN render : render[i] # 0

Ticks(log) == Cardinality({i \in 1..Len(log) : log[i] = "tick"})

\* C17: under every interleaving of init's awaits, Reset, pause toggles and
\* animation frames, at most one frame callback is pending at any time, and
\* tick() is called at most once in an animation frame.
C17_OneChain ==
  /\ Cardinality(frames) <= 1
  /\ Ticks(hist.frameLog) <= 1

\* two frame-loop chains are alive: one animation frame has ticked twice and
\* has requested two more callbacks
C17_TwoChains ==
  /\ Ticks(hist.frameLog) = 2
  /\ Cardinality(frames) = 2

SetCells(log) == Cardinality({i \in 1..Len(log) : log[i] = "set_cell"})

\* the last command of cmds at each painted position is what the cell holds
Applied(cmds, after) ==
  \A k \in 1..Len(cmds) :
    (\A j \in (k + 1)..Len(cmds) : <<cmds[j].x, cmds[j].y>> # <<cmds[k].x, cmds[k].y>>)
      => after[Idx(cmds[k].x, cmds[k].y)].species = cmds[k].species

\* C18: a frame that runs while the paused flag is true never calls tick() and
\* leaves the generation counter alone, yet it drains the input queue, applies
\* every flushed command to the Universe, uploads the render view and
\* schedules the next frame; no step taken while paused advances the
\* generation counter.
C18_PausedFrame ==
  [][/\ refs.paused => generation' <= generation
     /\ (refs.paused /\ hist'.rendered > hist.rendered) =>
          /\ Ticks(hist'.frameLog) = 0
          /\ generation' = generation
          /\ input'.commands = <<>>
          /\ hist'.handed = hist.handed \o input.commands
          /\ SetCells(hist'.frameLog) = Len(input.commands)
          /\ Applied(input.commands, cells')
          /\ hist'.uploaded = render'
          /\ frames' # {}]_vars

C18_Witness ==
  /\ refs.paused
  /\ hist.rendered > 0
  /\ Ticks(hist.frameLog) = 0
  /\ SetCells(hist.frameLog) > 0
  /\ hist.frameLog[Len(hist.frameLog)] = "raf"
  /\ hist.uploaded = render
  /\ \E i \in DOMAIN cells : cells[i].species # EMPTY

\* C19: flush() returns the commands queued since the previous flush in the
\* order they were queued and leaves the queue empty, so what the frame loop
\* has been handed so far, followed by what is still queued, is exactly the
\* sequence of commands ever queued: none lost, none handed twice.
C19_HandedOnce ==
  [][/\ hist'.handed \o input'.commands = hist'.queued
     /\ hist'.rendered > hist.rendered =>
          /\ input'.commands = <<>>
          /\ hist'.handed = hist.handed \o input.commands]_vars

C19_Witness ==
  /\ hist.rendered >= 2
  /\ hist.handed # <<>>
  /\ input.commands # <<>>
  /\ Len(hist.queued) = Len(hist.handed) + Len(input.commands)

UniverseMethods == {"set_cell", "tick", "species_ptr", "width", "height"}

\* C30: no Universe method (set_cell, tick, species_ptr, width, height) is
\* ever called on a Universe object after free() has been called on it,
\* whatever the order of frame callbacks, Reset and the unmount cleanup.
C30_NoUseAfterFree == heap.misused \cap UniverseMethods = {}

\* both Universes the page made have been freed, one by Reset and one by the
\* cleanup, and frames ran on the second one
C30_Witness ==
  /\ cancelled
  /\ hist.resets = 1
  /\ heap.freed = {1, 2}
  /\ hist.rendered > 0
  /\ generation > 0

\* free() reaches an object a second time
C30_FreedTwice == "free" \in heap.misused

\* C21: however many calls of loadSimulation overlap or follow each other,
\* the module import and the WASM init are each started at most once, and all
\* the calls that have resolved yield the same SimulationExports object.
C21_LoadedOnce ==
  /\ loader.imports <= 1
  /\ loader.inits <= 1
  /\ \A i, j \in 1..Len(loader.calls) :
       (Yield(loader, loader.calls[i]) # 0 /\ Yield(loader, loader.calls[j]) # 0)
         => Yield(loader, loader.calls[i]) = Yield(loader, loader.calls[j])

\* two calls overlapped the load and a third came after it; all have resolved
C21_Witness ==
  /\ Len(loader.calls) >= 3
  /\ loader.calls[1].via = "promise"
  /\ loader.calls[2].via = "promise"
  /\ loader.calls[Len(loader.calls)].via = "value"
  /\ \A i \in 1..Len(loader.calls) : Yield(loader, loader.calls[i]) = 1

\* C25: when navigator.gpu is unavailable as SimulationCanvas initialises,
\* the status is 'error' with a message that begins 'WebGPU is required', and
\* from then on no Universe is constructed, no Renderer or InputHandler is
\* created and no animation frame is requested.
C25_NoGpu ==
  initPc = "no-gpu" =>
    /\ status = "error"
    /\ errorMsg # <<>>
    /\ errorMsg[1] = "WebGPU is required"
    /\ heap.made = 0
    /\ ~refs.universe
    /\ ~refs.renderer
    /\ ~refs.input
    /\ hist.requests = 0
    /\ frames = {}

\* the page without WebGPU, after a pause toggle and its unmount
C25_Witness ==
  /\ initPc = "no-gpu"
  /\ status = "error"
  /\ refs.paused
  /\ cancelled

\* C22: when a Universe call or render throws inside a frame, the frame
\* clears the Universe reference, sets the status to 'crashed' and requests
\* no further frame; from then on 'crashed' is never left, no frame is
\* pending, Reset does nothing, and the Universe is never touched, freed or
\* replaced.
C22_Crashed ==
  [][/\ (hist'.frameLog # <<>> /\ hist'.frameLog # hist.frameLog
           /\ hist'.frameLog[Len(hist'.frameLog)] \in Faults) =>
          /\ status' = "crashed"
          /\ ~refs'.universe
          /\ frames' = {}
     /\ status = "crashed" =>
          /\ status' = "crashed"
          /\ ~refs.universe /\ ~refs'.universe
          /\ frames = {} /\ frames' = {}
          /\ resetThen = 0 /\ resetThen' = 0
          /\ hist'.resets = hist.resets
          /\ hist'.frameLog = hist.frameLog
          /\ heap' = heap
          /\ UNCHANGED <<cells, render, chunks, generation, rng, ghosts,
                         next_group, paints>>]_vars

\* a frame crashed in tick() after painting a ghost stamp, an earlier frame
\* had rendered, and the page was unmounted afterwards
C22_Witness ==
  /\ status = "crashed"
  /\ errorMsg = <<"tick">>
  /\ hist.rendered > 0
  /\ \E i \in 1..Len(hist.frameLog) : hist.frameLog[i] = "set_ghost"
  /\ cancelled

\* the cells of the grid within `radius` of the centre
Disc(cx, cy, radius, gridWidth, gridHeight) ==
  {c \in (0 .. (gridWidth - 1)) \X (0 .. (gridHeight - 1)) :
     (c[1] - cx) * (c[1] - cx) + (c[2] - cy) * (c[2] - cy) <= radius * radius}

\* C23: brushCells(cx, cy, r, W, H) returns exactly the cells of the grid
\* within distance r of the centre, each exactly once, for every centre in
\* the grid and every radius 0..10; radius 0 gives the centre alone.
C23_FilledCircle ==
  probe.fn = "brushCells" =>
    LET a == probe.args
        disc == Disc(a[1], a[2], a[3], a[4], a[5])
    IN  /\ {probe.out[k] : k \in 1 .. Len(probe.out)} = disc
        /\ Len(probe.out) = Cardinality(disc)
        /\ a[3] = 0 => probe.out = << <<a[1], a[2]>> >>

\* the widest brush in a corner of a grid it does not fit in: the circle is
\* cut by the grid on two sides and by its radius on the others
C23_Witness ==
  /\ probe.fn = "brushCells"
  /\ probe.args = <<0, 0, BRUSH_MAX, MaxProbeGrid, MaxProbeGrid>>
  /\ Len(probe.out) > 1
  /\ Len(probe.out) < MaxProbeGrid * MaxProbeGrid
  /\ <<BRUSH_MAX, 0>> \in {probe.out[k] : k \in 1 .. Len(probe.out)}
  /\ <<BRUSH_MAX, 1>> \notin {probe.out[k] : k \in 1 .. Len(probe.out)}

\* C24: for integer endpoints in [0,255], interpolateLine returns a non-empty
\* list that starts at (x0,y0), ends at (x1,y1) and moves by at most 1 in each
\* coordinate from one point to the next; equal endpoints give that one point.
C24_ConnectedLine ==
  probe.fn = "interpolateLine" =>
    LET a == probe.args
        out == probe.out
    IN  /\ Len(out) >= 1
        /\ out[1] = <<a[1], a[2]>>
        /\ out[Len(out)] = <<a[3], a[4]>>
        /\ \A k \in 1 .. (Len(out) - 1) :
             /\ Abs(out[k + 1][1] - out[k][1]) <= 1
             /\ Abs(out[k + 1][2] - out[k][2]) <= 1
        /\ (a[1] = a[3] /\ a[2] = a[4]) => out = << <<a[1], a[2]>> >>

\* a shallow line across the whole grid, right to left and downwards
C24_Witness ==
  /\ probe.fn = "interpolateLine"
  /\ probe.args = <<COORD_MAX, 0, 0, MaxCoord>>
  /\ Len(probe.out) = COORD_MAX + 1
  /\ \E k \in 1 .. (Len(probe.out) - 1) : probe.out[k + 1][2] = probe.out[k][2] + 1
  /\ \E k \in 1 .. (Len(probe.out) - 1) : probe.out[k + 1][2] = probe.out[k][2]

\* a Sand or Water cell with an Empty cell directly below it
CanFall(cs, x, y) ==
  /\ cs[Idx(x, y)].species \in {SAND, WATER}
  /\ y + 1 < height
  /\ cs[Idx(x, y + 1)].species = EMPTY

\* C27: after any tick, every Sand or Water cell whose cell directly below is
\* Empty lies inside the dirty rectangle of a dirty chunk, so that the next
\* tick's scan reaches it.
C27_NoneStranded ==
  [][Ticked =>
       \A x \in 0 .. (width - 1), y \in 0 .. (height - 1) :
         CanFall(cells', x, y) => InRect(chunks'[ChunkOf(x, y)], x, y)]_vars

\* a grain is left hanging in a clean chunk and further ticks pass it by
C27_Stranded ==
  /\ generation >= 2
  /\ \A c \in DOMAIN chunks : ~chunks[c].dirty
  /\ \E x \in 0 .. (width - 1), y \in 0 .. (height - 1) : CanFall(cells, x, y)

\* ---- C28 -----------------------------------------------------------------
\* the cells a chunk covers: its tile, cut off at the grid's edge
InTile(c, x, y) ==
  /\ (c % chunks_w) * chunk_size <= x
  /\ x < (c % chunks_w) * chunk_size + chunk_size
  /\ (c \div chunks_w) * chunk_size <= y
  /\ y < (c \div chunks_w) * chunk_size + chunk_size

Painted == paints' = paints + 1
LastPaint == tickLog[Len(tickLog)]
PaintedBefore == Len(tickLog) > 0 /\ LastPaint.k = "paint"

WrittenInTick(x, y) ==
  \E m \in 1 .. Len(tickLog') : tickLog'[m].k = "write" /\ tickLog'[m].x = x /\ tickLog'[m].y = y

\* C29: in every tick, a non-Empty cell that lies inside the dirty rectangle
\* of its chunk when the tick starts (so the scan of that chunk covers it) and
\* that no rule writes during the tick has its rule invoked, whatever the
\* generation is and whenever the cell's clock was stamped.
C29_NoFalseSkip ==
  [][Ticked =>
       \A x \in 0 .. (width - 1), y \in 0 .. (height - 1) :
         (/\ cells[Idx(x, y)].species # EMPTY
          /\ InRect(chunks[ChunkOf(x, y)], x, y)
          /\ ~WrittenInTick(x, y))
         => \E m \in 1 .. Len(tickLog') : tickLog'[m] = RuleEvent(x, y)]_vars

\* a tick past generation 256 has scanned a rectangle around a grain that kept
\* its cell and its stamp from 256 ticks before, without invoking its rule
C29_SkippedByStamp ==
  /\ generation = U8 + 1
  /\ \E x \in 0 .. (width - 1) :
       /\ cells[Idx(x, height - 1)].species = SAND
       /\ cells[Idx(x, height - 1)].clock = 1
       /\ \E m \in 1 .. Len(tickLog) : tickLog[m].k = "scan"
       /\ \A m \in 1 .. Len(tickLog) : tickLog[m] # RuleEvent(x, height - 1)

\* ---- C31 -----------------------------------------------------------------
\* C31: free() is called at most once on each constructed Universe, whatever
\* the order of init's continuations, Reset and the unmount cleanup: no
\* free() is ever called on an object that has been freed already.
C31_FreedOnce == "free" \notin heap.misused

\* ---- C32 -----------------------------------------------------------------
Settled ==
  /\ cancelled
  /\ resetThen = 0
  /\ initPc \notin {"mount", "loadSimulation", "Renderer.create"}

C32_Leaked ==
  /\ Settled
  /\ heap.made = 2
  /\ heap.freed = {1}
  /\ heap.ref = 2

\* ---- C33 -----------------------------------------------------------------
AllClean == \A c \in DOMAIN chunks : ~chunks[c].dirty

\* C33: a grid of Wall, Sand and Empty cells that is no longer painted reaches,
\* with ticks continuing, a state from which no chunk is dirty any more; and a
\* tick that starts with no dirty chunk invokes no rule, writes no cell and
\* leaves every chunk clean.
C33_Settles ==
  /\ <>[]AllClean
  /\ [][(Ticked /\ AllClean) =>
         (tickLog' = <<>> /\ cells' = cells /\ render' = render /\ AllClean')]_vars

\* two grains have moved, the grid has gone quiet and a tick has run on the
\* quiet grid
C33_Witness ==
  /\ generation = SETTLE_TICKS
  /\ AllClean
  /\ tickLog = <<>>
  /\ Cardinality({i \in DOMAIN cells : cells[i].species = SAND /\ cells[i].clock > 0}) >= 2

\* ---- C34 -----------------------------------------------------------------
CountIn(cs, sp) == Cardinality({i \in DOMAIN cs : cs[i].species = sp})

Holds(cs, x, y, sp, rb) ==
  /\ InBounds(x, y)
  /\ cs[Idx(x, y)].species = sp
  /\ cs[Idx(x, y)].rb = rb

\* the Fire cell at (x, y) is one tick older after the step: still Fire with
\* one unit of lifetime less, in place or one row up, or turned into Smoke
FireAged(x, y) ==
  LET r == cells[Idx(x, y)].rb
  IN  \/ cells'[Idx(x, y)].species = SMOKE
      \/ Holds(cells', x, y, FIRE, r - 1)
      \/ \E d \in {-1, 0, 1} : Holds(cells', x + d, y - 1, FIRE, r - 1)

\* the Smoke cell at (x, y) is one tick older after the step: still Smoke with
\* one unit less, in place, beside or one row up, or gone
SmokeAged(x, y) ==
  LET r == cells[Idx(x, y)].rb
  IN  \/ r <= 1 /\ cells'[Idx(x, y)].species # SMOKE
      \/ Holds(cells', x, y, SMOKE, r - 1)
      \/ \E d \in {-1, 1} : Holds(cells', x + d, y, SMOKE, r - 1)
      \/ \E d \in {-1, 0, 1} : Holds(cells', x + d, y - 1, SMOKE, r - 1)

\* C35: a painted Fire cell starts with a lifetime in [40,80] and a Smoke cell
\* is created with a lifetime in [60,120]; every tick takes exactly one unit
\* from the lifetime of every Fire cell and every Smoke cell (or ends the
\* cell), so that Fire is gone within 80 ticks and Smoke within 120.
C35_LifetimesRunDown ==
  [][ /\ \A i \in DOMAIN cells :
          /\ (cells'[i].species = FIRE /\ cells[i].species # FIRE /\ Painted)
               => cells'[i].rb \in FIRE_LIFE_MIN .. FIRE_LIFE_MAX
          /\ (cells'[i].species = SMOKE /\ cells'[i].clock = generation' % U8
                /\ Ticked /\ cells[i].species = FIRE)
               => cells'[i].rb \in SMOKE_LIFE_MIN .. SMOKE_LIFE_MAX
      /\ Ticked =>
            \A x \in 0 .. (width - 1), y \in 0 .. (height - 1) :
              /\ cells[Idx(x, y)].species = FIRE => FireAged(x, y)
              /\ cells[Idx(x, y)].species = SMOKE => SmokeAged(x, y) ]_vars

\* a Fire cell that no tick will visit again: every chunk is clean
C35_FireForever ==
  /\ generation >= 2
  /\ AllClean
  /\ \E i \in DOMAIN cells : cells[i].species = FIRE

\* ---- C36 -----------------------------------------------------------------
\* the step is a rule invocation at (x, y)
RuleAt(x, y) == ~RuleRan /\ RuleRan' /\ tickLog'[1] = RuleEvent(x, y)

\* the Water cells among the 8 neighbours of (x, y)
WetCells(x, y) ==
  {p \in ((x - 1) .. (x + 1)) \X ((y - 1) .. (y + 1)) :
     /\ p # <<x, y>>
     /\ InBounds(p[1], p[2])
     /\ cells[Idx(p[1], p[2])].species = WATER}

\* the Fire cell at (x, y) and exactly one Water cell next to it have become
\* Smoke, and nothing else has changed
BothConsumed(x, y) ==
  /\ cells'[Idx(x, y)].species = SMOKE
  /\ \E p \in WetCells(x, y) :
       /\ cells'[Idx(p[1], p[2])].species = SMOKE
       /\ Changed = {Idx(x, y), Idx(p[1], p[2])}
  /\ CountIn(cells', FIRE) = CountIn(cells, FIRE) - 1
  /\ CountIn(cells', WATER) = CountIn(cells, WATER) - 1
  /\ CountIn(cells', SMOKE) = CountIn(cells, SMOKE) + 2

FreeAt(x, y) == InBounds(x, y) /\ cells[Idx(x, y)].species = EMPTY

\* the grain of (x, y) is now at (tx, ty), what was at (tx, ty) is now at
\* (x, y), and no other cell has changed
SandNowAt(x, y, tx, ty) ==
  /\ cells'[Idx(tx, ty)].species = SAND
  /\ cells'[Idx(tx, ty)].ra = cells[Idx(x, y)].ra
  /\ cells'[Idx(x, y)].species = cells[Idx(tx, ty)].species
  /\ Changed = {Idx(x, y), Idx(tx, ty)}

FireSet(cs) == {i \in DOMAIN cs : cs[i].species = FIRE}

\* C38: the rule of a Fire cell at (x, y) leaves it in place or moves it to
\* (x+d, y-1) with d in {-1,0,1}, and only into a cell that was Empty; apart
\* from the Fire cell's own place the only cells it writes were Empty (the
\* move) or Water (the reaction).  No rule of another cell moves, creates or
\* removes a Fire cell.  So no Fire cell ever gets to a lower row.
C38_FireRises ==
  [][\A x \in 0 .. (width - 1), y \in 0 .. (height - 1) :
       RuleAt(x, y) =>
         IF cells[Idx(x, y)].species = FIRE
         THEN /\ \A i \in FireSet(cells') \ FireSet(cells) :
                   /\ cells[i].species = EMPTY
                   /\ YOf(i) = y - 1
                   /\ XOf(i) - x \in {-1, 0, 1}
                   /\ cells'[Idx(x, y)].species = EMPTY
                   /\ cells'[i].rb = cells[Idx(x, y)].rb - 1
              /\ FireSet(cells) \ FireSet(cells') \subseteq {Idx(x, y)}
              /\ \A i \in Changed \ {Idx(x, y)} : cells[i].species \in {EMPTY, WATER}
         ELSE FireSet(cells') = FireSet(cells)]_vars

\* a Fire cell has moved to the row above, one column to the side
C38_Witness ==
  /\ RuleRan
  /\ \E x \in 0 .. (width - 1), y \in 1 .. (height - 1), d \in {-1, 1} :
       /\ tickLog[1] = RuleEvent(x, y)
       /\ InBounds(x + d, y - 1)
       /\ cells[Idx(x, y)].species = EMPTY
       /\ cells[Idx(x + d, y - 1)].species = FIRE
       /\ cells[Idx(x + d, y - 1)].clock = 1

\* ---- C39 -----------------------------------------------------------------
\* the Ghost cells of store cs that carry group tag t
Tagged(cs, t) == {i \in DOMAIN cs : cs[i].species = GHOST /\ cs[i].ra = t}

Steps == ((-1 .. 1) \X (-1 .. 1)) \ {<<0, 0>>}

\* the cells tagged t have all moved by the step st, inside the grid, into
\* cells that held no Wall, Sand, Water, Fire or Smoke, keeping their rb
MovedBy(t, st) ==
  LET P == Tagged(cells, t)
  IN  /\ \A i \in P : InBounds(XOf(i) + st[1], YOf(i) + st[2])
      /\ Tagged(cells', t) = {Idx(XOf(i) + st[1], YOf(i) + st[2]) : i \in P}
      /\ \A i \in P :
           LET j == Idx(XOf(i) + st[1], YOf(i) + st[2])
           IN  /\ cells'[j].rb = cells[i].rb
               /\ cells[j].species \in {EMPTY, GHOST}

\* C39: in each tick every ghost group is translated at most once, and as a
\* whole: the cells of a group all move by one and the same unit step, into
\* cells inside the grid that held nothing but Empty or Ghost, or none of them
\* moves; the group keeps its shape and its cell count.
C39_RigidStep ==
  [][Ticked =>
       /\ \A gid \in DOMAIN ghosts :
            Cardinality({k \in 1 .. Len(tickLog') :
                           tickLog'[k].k = "group" /\ tickLog'[k].x = gid}) <= 1
       /\ \A t \in 0 .. (U8 - 1) :
            Tagged(cells, t) # {} =>
              \/ Tagged(cells', t) = Tagged(cells, t)
              \/ \E st \in Steps : MovedBy(t, st)]_vars

\* a ghost of two cells has moved as one
C39_Witness ==
  /\ generation > 0
  /\ \E k \in LogIdx : tickLog[k].k = "group"
  /\ \E t \in {0, 1} : Cardinality(Tagged(cells, t)) = 2
  /\ \A i \in DOMAIN cells : cells[i].species = GHOST => cells[i].clock = generation

\* one tick has translated the same cells under two group ids that share
\* their tag
C39_MovedTwice ==
  \E j \in LogIdx, k \in LogIdx :
    /\ tickLog[j].k = "group" /\ tickLog[k].k = "group"
    /\ tickLog[j].x # tickLog[k].x
    /\ tickLog[j].x % U8 = tickLog[k].x % U8

\* ---- C40 -----------------------------------------------------------------
\* the commands a step has queued
Queued == SubSeq(hist'.queued, Len(hist.queued) + 1, Len(hist'.queued))

\* the commands of a segment from grid position a to grid position b with
\* the brush and species selected
Segment(a, b) ==
  interpolateAndPaint([input EXCEPT !.commands = <<>>], a[1], a[2], b[1], b[2]).commands

\* C40: commands are queued only by a pointerdown and by a pointermove that
\* arrives after a pointerdown and before the next pointerup; a pointermove
\* outside a stroke queues nothing and leaves the handler as it was; and the
\* first pointermove of a stroke queues the segment from that stroke's
\* pointerdown position to the pointer, whatever earlier strokes left behind.
C40_StrokesOnly ==
  [][/\ Queued # <<>> =>
          \/ \E e \in StrokePointer : StrokeDown(e)
          \/ hist.stroke.open /\ \E e \in StrokePointer : StrokeMove(e)
     /\ \A e \in StrokePointer :
          (StrokeMove(e) /\ ~hist.stroke.open) =>
            (Queued = <<>> /\ input' = input)
     /\ \A e \in StrokePointer :
          (StrokeMove(e) /\ hist.stroke.open /\ hist.stroke.moves = 0) =>
            Queued = Segment(hist.stroke.down, screenToGrid(e))]_vars

\* a second stroke began away from where the first one was, after a
\* pointermove outside any stroke, and its first pointermove has been queued
\* as a segment longer than one point
C40_Witness ==
  /\ hist.stroke.strokes = 2
  /\ hist.stroke.idle > 0
  /\ hist.stroke.open /\ hist.stroke.moves = 1
  /\ hist.stroke.prev # NO_POS /\ hist.stroke.prev # hist.stroke.down
  /\ hist.stroke.at # hist.stroke.down
  /\ input.lastPos = hist.stroke.at
  /\ Len(hist.queued) > 0

====
